---- MODULE Spec2Model ----
(***************************************************************************)
(* Model of bossimage (src/bossimage/core.py): the instance lifecycle      *)
(* driven through on-disk state (load_or_create_instance, make_image,      *)
(* clean_image, clean_build) and the connection wait loop                  *)
(* (wait_for_connection).  One instance_key is modelled; the cloud         *)
(* provider is modelled by the resources it holds and by calls that may    *)
(* fail.                                                                   *)
(***************************************************************************)
EXTENDS Integers, Sequences, FiniteSets, TLC

(* ------------------------------ bounds --------------------------------- *)
\* number of instance ids the provider hands out
MaxInstances == 2
\* number of image ids the provider hands out
MaxImages == 2
\* number of invocations of the tool in one behaviour
MaxOps == 4
\* latest time (seconds) at which wait_for_connection is entered
MaxStart == 2
\* latest deadline (seconds) given to wait_for_connection
MaxEnd == 32
\* longest duration (seconds) of the remote no-op command check
MaxExecSecs == 2
\* most platforms and most profiles of a configuration document
MaxPlatforms == 2
MaxProfiles == 2
\* most fields a configuration document sets
MaxSet == 3
\* most items a provider service holds when a name is looked up
MaxItems == 2
\* number of invocations of run in one behaviour
MaxRuns == 2

(* -------------------------- program constants -------------------------- *)
\* time.sleep(15) in wait_for_connection
SleepSecs == 15
\* socket.create_connection((addr, port), 1): per-attempt timeout
TcpTimeout == 1

(* ------------------------------ strings -------------------------------- *)
\* Names are sequences of characters so that str.startswith is computed.
StartsWith(s, p) == Len(s) >= Len(p) /\ SubSeq(s, 1, Len(p)) = p

AmiPrefix == <<"a", "m", "i", "-">>
SgPrefix == <<"s", "g", "-">>
SubnetPrefix == <<"s", "u", "b", "n", "e", "t", "-">>

\* what the provider's filtered lookups know: [id, name] items
ImageCatalog == << [id |-> AmiPrefix \o <<"7">>, name |-> <<"c", "7">>] >>
SgCatalog == << [id |-> SgPrefix \o <<"5">>, name |-> <<"w", "e", "b">>],
                [id |-> SgPrefix \o <<"6">>, name |-> <<"w", "e", "b">>] >>
SubnetCatalog == << [id |-> SubnetPrefix \o <<"3">>, name |-> <<"d", "m", "z">>] >>

\* service.filter(Filters=[flt]): the items whose name equals the given one
Filter(catalog, name) == SelectSeq(catalog, LAMBDA it : it.name = name)

\* mutant: the last of the items found is taken
resource_id_for_last_item(catalog, name, prefix) ==
    IF StartsWith(name, prefix) THEN [found |-> TRUE, id |-> name, lookups |-> 0]
    ELSE LET item == Filter(catalog, name)
         IN  IF item # <<>> THEN [found |-> TRUE, id |-> item[Len(item)].id, lookups |-> 1]
             ELSE [found |-> FALSE, id |-> name, lookups |-> 1]

\* resource_id_for: [found, id, lookups]; found = FALSE stands for raise
\* ItemNotFound, lookups counts the calls of service.filter
resource_id_for(catalog, name, prefix) ==
    IF StartsWith(name, prefix) THEN [found |-> TRUE, id |-> name, lookups |-> 0]
    ELSE LET item == Filter(catalog, name)
         IN  IF item # <<>> THEN [found |-> TRUE, id |-> item[1].id, lookups |-> 1]
             ELSE [found |-> FALSE, id |-> name, lookups |-> 1]

ami_id_for(name) == resource_id_for(ImageCatalog, name, AmiPrefix)
sg_id_for(name) == resource_id_for(SgCatalog, name, SgPrefix)
subnet_id_for(name) == resource_id_for(SubnetCatalog, name, SubnetPrefix)

\* values of config['source_ami'], config['subnet'], config['security_groups']
SourceAmis == { AmiPrefix \o <<"1">>, <<"c", "7">>, <<"x">> }
Subnets == { <<>>, SubnetPrefix \o <<"1">>, <<"d", "m", "z">>, <<"y">> }
SecurityGroupLists == { <<>>, << <<"w", "e", "b">>, SgPrefix \o <<"9">> >>,
                        << <<"w", "e", "b">>, <<"z">> >> }

(* ------------------------------- files --------------------------------- *)
FileNames == {"state", "keyfile", "inventory", "playbook"}

\* instance_files: the four paths of one instance_key, named by their role
instance_files == [f \in FileNames |-> f]

NoFile == [exists |-> FALSE, mode |-> "", data |-> <<>>]

\* open(path, 'w') and write: a new file gets the default mode, an existing
\* file is truncated and keeps its mode
WriteFile(old, data) ==
    [exists |-> TRUE, mode |-> IF old.exists THEN old.mode ELSE "0644", data |-> data]

\* a number or a text that is not the one written: the text was cut inside
\* it, and what is left reads as None or as a shorter value
CutId == 0
CutText == "cut"

\* open(path, 'w') succeeded and the write of items raised: what the file
\* holds of them, namely the first k items whole (none when the file is empty
\* or cut in its first item), and then perhaps the next one cut; with
\* k = Len(items) no more than a trailing newline is missing
PartialItems(items, cut) ==
    {SubSeq(items, 1, k) : k \in 0..Len(items)}
    \cup {Append(SubSeq(items, 1, k), cut) : k \in 0..(Len(items) - 1)}

\* mutant: the chmod is left out
Chmod600_left_out(file) == file

\* os.chmod(path, 0600)
Chmod600(file) == [file EXCEPT !.mode = "0600"]

(* ------------------------- the state document -------------------------- *)
\* yaml.safe_dump writes a mapping with its keys sorted
KeyOrder == <<"ami_id", "build", "keyname">>

\* what yaml.load gives where the text holds no mapping: Python's None for
\* an empty text or an empty value, a bare string for a text cut in a key
None == [null |-> TRUE]

\* yaml.load raises yaml.YAMLError: the text is cut inside a key that
\* follows a whole line, and cannot be parsed
YAMLError == [error |-> TRUE]
Garbled == << <<"garbled">> >>

\* the document of the empty mapping, '{}'
EmptyMapping == << <<"{}">> >>

BuildOrder == <<"id", "ip">>

\* the nested build mapping as a list of <<key, value>>, the empty list for
\* a value that is no mapping
dump_build(b) ==
    IF b = None THEN <<>>
    ELSE LET ks == SelectSeq(BuildOrder, LAMBDA k : k \in DOMAIN b)
         IN  [i \in 1..Len(ks) |-> <<ks[i], b[ks[i]]>>]

\* yaml.safe_dump(state): the document as a sorted list of <<key, value>>,
\* the nested build mapping as a nested list
safe_dump(d) ==
    IF DOMAIN d = {} THEN EmptyMapping
    ELSE LET ks == SelectSeq(KeyOrder, LAMBDA k : k \in DOMAIN d)
         IN  [i \in 1..Len(ks) |->
                 IF ks[i] = "build" THEN <<"build", dump_build(d["build"])>>
                 ELSE <<ks[i], d[ks[i]]>>]

load_build(v) ==
    IF v = <<>> THEN None
    ELSE [k \in {v[i][1] : i \in 1..Len(v)} |->
             v[CHOOSE i \in 1..Len(v) : v[i][1] = k][2]]

\* yaml.load(f): the mapping a document denotes, None for an empty file,
\* YAMLError where it raises
yaml_load(doc) ==
    IF doc = <<>> THEN None
    ELSE IF doc = Garbled THEN YAMLError
    ELSE IF doc = EmptyMapping THEN [k \in {} |-> 0]
    ELSE [k \in {doc[i][1] : i \in 1..Len(doc)} |->
            LET v == doc[CHOOSE i \in 1..Len(doc) : doc[i][1] = k][2]
            IN  IF k = "build" THEN load_build(v) ELSE v]

\* the forms an entry of the state document takes when the text ends in it:
\* a scalar cut short; build with no mapping yet, with its id cut, with its
\* id alone, with its ip cut
CutEntry(e) ==
    IF e[1] # "build" THEN {<<e[1], CutId>>}
    ELSE {<<"build", <<>>>>}
         \cup (IF Len(e[2]) >= 1
               THEN {<<"build", <<<<"id", CutId>>>>>>} ELSE {})
         \cup (IF Len(e[2]) >= 2
               THEN {<<"build", <<e[2][1]>>>>,
                     <<"build", <<e[2][1], <<"ip", CutText>>>>>>}
               ELSE {})

\* f.write(yaml.safe_dump(state)) raised after open(files['state'], 'w'):
\* what the state file holds of the document: its first k entries, and then
\* perhaps the next one cut; a text that cannot be parsed where the document
\* has a key that follows a whole line, or is the flow mapping '{}' of an
\* empty dict cut after its first character
PartialDocs(doc) ==
    LET Leaves == Len(doc) + Cardinality({i \in 1..Len(doc) :
                        doc[i][1] = "build" /\ Len(doc[i][2]) >= 2})
    IN
    IF doc = EmptyMapping THEN {<<>>, Garbled, doc}
    ELSE {SubSeq(doc, 1, k) : k \in 0..Len(doc)}
         \cup UNION {{Append(SubSeq(doc, 1, k), c) : c \in CutEntry(doc[k + 1])} :
                        k \in 0..(Len(doc) - 1)}
         \cup (IF Leaves >= 2 THEN {Garbled} ELSE {})

\* os.path.exists(files['state'])
StateExists(fs) == fs["state"].exists

\* state['ami_id'] = image.id
SetAmiId(d, id) ==
    [k \in (DOMAIN d) \cup {"ami_id"} |-> IF k = "ami_id" THEN id ELSE d[k]]

\* del(state['ami_id'])
DelAmiId(d) == [k \in (DOMAIN d) \ {"ami_id"} |-> d[k]]

(* ------------------------------ variables ------------------------------ *)
VARIABLES
    files,        \* the four InstanceFiles: name -> [exists, mode, data]
    pwfile,       \* the number of transient password files in .boss
    keypairs,     \* key names held by the provider
    instances,    \* provider instances, index = instance id
    images,       \* provider images, index = image id
    pc,           \* position of the running operation, "idle" between them
    op,           \* the running operation
    outcome,      \* "" while running, "ok" or the exception raised
    config,       \* config of the running invocation
    keyname,      \* local of load_or_create_instance
    ec2_instance, \* local: id of the instance handled, 0 if none
    image,        \* local of make_image: id of the image created, 0 if none
    state,        \* local: the loaded state mapping
    password,     \* local of load_or_create_instance
    todo,         \* clean_build: files not yet visited by the removal loop
    result,       \* value returned by load_or_create_instance
    log,          \* calls issued by the running invocation, in order
    files0,       \* the InstanceFiles when the running invocation began
    kpCreated,    \* keypairs created since the last completed clean_build
    instCreated,  \* instances created since the last completed clean_build
    attempts,     \* clean_build: os.unlink calls made per file by the running invocation
    failed,       \* clean_build: files whose os.unlink raised OSError
    prev,         \* the invocation that finished last
    nOps,         \* invocations begun so far
    now,          \* wall clock (seconds), time.time()
    end,          \* wait_for_connection: the absolute deadline
    wpc,          \* position in wait_for_connection, "off" when it is not running
    nTcp,         \* TCP connects started
    nExec,        \* remote no-op command checks started
    tcpOk,        \* the TCP connect of the current iteration succeeded
    ret,          \* exit code of the last command check, -1 if it could not start
    started,      \* time the last attempt started, -1 if none
    t0,           \* time wait_for_connection was entered
    doc,          \* the configuration document (.boss.yml, rendered and parsed)
    loaded,       \* what load_config returned or raised
    loaded_v2,    \* what load_config_v2 returned or raised
    lookup,       \* resource_id_for: the arguments [service, name, prefix]
    resolved,     \* resource_id_for: what it returned or raised
    rpc,          \* position of run, "off" when it is not running
    launched,     \* run: the steps begun and child processes launched, in order
    rets,         \* run: return codes, each <<>> until there is one
    raised,       \* run: the exception that ended it, "" if none
    ppc,          \* Spinner: position of the parent thread in the with statement
    tpc,          \* Spinner: position of the ticker thread in Spinner.run
    running,      \* Spinner: self.running
    q,            \* Spinner: number of items in self.q
    chars,        \* Spinner: position in itertools.cycle of the four characters
    body,         \* Spinner: how the body of the with statement concluded
    after         \* Spinner: how the with statement concluded

lifeVars == <<files, pwfile, keypairs, instances, images, pc, op, outcome, config,
              keyname, ec2_instance, image, state, password, todo, result, log,
              files0, kpCreated, instCreated, attempts, failed, prev, nOps>>
waitVars == <<now, end, wpc, nTcp, nExec, tcpOk, ret, started, t0>>
confVars == <<doc, loaded, loaded_v2>>
resolverVars == <<lookup, resolved>>
runVars == <<rpc, launched, rets, raised>>
spinVars == <<ppc, tpc, running, q, chars, body, after>>
extVars == <<confVars, resolverVars, runVars, spinVars>>
vars == <<lifeVars, waitVars, extVars>>

NoConfig == [connection |-> "ssh", associate_public_ip_address |-> TRUE,
             tags |-> FALSE]
NoState == [none |-> TRUE]

NoAttempts == [f \in FileNames |-> 0]
NoPrev == [op |-> "", ok |-> FALSE, before |-> <<>>, image |-> 0]

\* tags: whether config['tags'] is a non-empty mapping
Configs == [connection : {"ssh", "winrm"}, associate_public_ip_address : BOOLEAN,
            tags : BOOLEAN]

LifeInit ==
    /\ files = [f \in FileNames |-> NoFile]
    /\ pwfile = 0
    /\ keypairs = {}
    /\ instances = <<>>
    /\ images = <<>>
    /\ pc = "idle" /\ op = "" /\ outcome = ""
    /\ config = NoConfig
    /\ keyname = 0 /\ ec2_instance = 0 /\ image = 0
    /\ state = NoState
    /\ password = ""
    /\ todo = {}
    /\ result = NoState
    /\ log = <<>>
    /\ files0 = [f \in FileNames |-> NoFile]
    /\ kpCreated = 0 /\ instCreated = 0
    /\ attempts = NoAttempts
    /\ failed = {}
    /\ prev = NoPrev
    /\ nOps = 0

WaitIdle ==
    /\ now = 0 /\ end = 0 /\ wpc = "off" /\ nTcp = 0 /\ nExec = 0
    /\ tcpOk = FALSE /\ ret = -1 /\ started = -1 /\ t0 = 0

(* ------------------------------- dicts --------------------------------- *)
\* a dict is a function from its keys to its values
EmptyDict == [k \in {} |-> ""]

\* d.update(e)
Update(d, e) ==
    [k \in (DOMAIN d) \cup (DOMAIN e) |-> IF k \in DOMAIN e THEN e[k] ELSE d[k]]

\* {k: v for k, v in d.items() if k not in ks}
Without(d, ks) == [k \in (DOMAIN d) \ ks |-> d[k]]

\* no configuration is being resolved
NoDoc == [platforms |-> <<>>]
NotLoaded == [status |-> "", config |-> EmptyDict]
ConfIdle == doc = NoDoc /\ loaded = NotLoaded /\ loaded_v2 = NotLoaded

\* no name is being resolved
NoLookup == [service |-> <<>>, name |-> <<>>, prefix |-> <<>>]
NotResolved == [found |-> FALSE, id |-> <<>>, lookups |-> 0]
ResolverIdle == lookup = NoLookup /\ resolved = NotResolved

\* run is not running
NoRets == [galaxy |-> <<>>, playbook |-> <<>>, run |-> <<>>, exit |-> <<>>]
RunIdle == rpc = "off" /\ launched = <<>> /\ rets = NoRets /\ raised = ""

\* Spinner.__init__, lines 50-55: no thread yet, running is False, q is empty
SpinnerInit ==
    /\ ppc = "enter" /\ tpc = "unstarted" /\ running = FALSE /\ q = 0
    /\ chars = 0 /\ body = "" /\ after = ""

ExtIdle == ConfIdle /\ ResolverIdle /\ RunIdle /\ SpinnerInit

Init == LifeInit /\ WaitIdle /\ ExtIdle

(* --------------------------- step helpers ------------------------------ *)
\* the running operation goes to position p, having issued call c
Goto(p, c) == pc' = p /\ log' = Append(log, c) /\ UNCHANGED <<op, outcome>>

\* the running operation raises e while issuing call c
Raise(e, c) == pc' = "done" /\ outcome' = e /\ log' = Append(log, c) /\ UNCHANGED op

\* the running operation returns
Return(c) == pc' = "done" /\ outcome' = "ok" /\ log' = Append(log, c) /\ UNCHANGED op

provVars == <<keypairs, instances, images>>
localVars == <<keyname, ec2_instance, image, state, password, todo, result>>
histVars == <<files0, kpCreated, instCreated, attempts, failed, prev, nOps>>

\* the running operation ends with outcome o, issuing no further call
Done(o) == pc' = "done" /\ outcome' = o /\ UNCHANGED <<op, log>>


\* a step that is no call: the running operation goes to position p
Skip(p) == pc' = p /\ UNCHANGED <<log, op, outcome>>

\* an operation begins: nothing issued yet, the files are remembered
Begin(o) ==
    /\ pc = "idle" /\ nOps < MaxOps
    /\ nOps' = nOps + 1
    /\ op' = o /\ log' = <<>> /\ files0' = files

\* ec2_instance.public_ip_address / private_ip_address as write_files picks them
IpAddress(inst, cfg) ==
    IF cfg.associate_public_ip_address THEN inst.public_ip_address
    ELSE inst.private_ip_address

\* key names generated so far that something still shows: the keypairs and
\* the instances the provider holds (terminated ones too), and the files
UsedKeyNames ==
    keypairs
    \cup {instances[i].keyname : i \in DOMAIN instances}
    \cup (IF files["keyfile"].exists /\ files["keyfile"].data # <<>>
          THEN {files["keyfile"].data[1]} \ {CutId} ELSE {})
    \cup (IF files["state"].exists
             /\ "keyname" \in DOMAIN yaml_load(files["state"].data)
          THEN {yaml_load(files["state"].data)["keyname"]} \ {CutId} ELSE {})

\* gen_keyname: ten random characters, a name never generated before; names
\* are numbered, and the least unused number stands for the fresh name
gen_keyname ==
    CHOOSE n \in 1..(Cardinality(UsedKeyNames) + 1) :
        n \notin UsedKeyNames /\ \A m \in 1..(n - 1) : m \in UsedKeyNames

(* ------------------- load_or_create_instance (ensureInstance) ---------- *)
\* lines 256-260: the state file decides between loading and creating
load_or_create_instance ==
    /\ Begin("load_or_create_instance")
    /\ outcome' = ""
    /\ \E c \in Configs : config' = c
    /\ IF StateExists(files)
       THEN pc' = "load_state" /\ UNCHANGED keyname
       ELSE pc' = "create_key_pair" /\ keyname' = gen_keyname
    /\ UNCHANGED <<files, pwfile, provVars, ec2_instance, image, state, password,
                   todo, result, kpCreated, instCreated, attempts, failed, prev, waitVars, extVars>>

\* create_keypair, line 124: the provider creates the keypair or refuses
create_key_pair ==
    /\ pc = "create_key_pair"
    /\ \/ /\ keypairs' = keypairs \cup {keyname}
          /\ kpCreated' = kpCreated + 1
          /\ Goto("write_keyfile", "create_key_pair")
       \/ /\ Raise("ClientError", "create_key_pair")
          /\ UNCHANGED <<keypairs, kpCreated>>
    /\ UNCHANGED <<files, pwfile, instances, images, config, localVars, files0,
                   instCreated, attempts, failed, prev, nOps, waitVars, extVars>>

\* create_keypair, lines 127-128: the private key goes to the credential file
write_keyfile ==
    /\ pc = "write_keyfile"
    /\ \/ /\ files' = [files EXCEPT !["keyfile"] = WriteFile(@, <<keyname>>)]
          /\ Goto("chmod_keyfile", "write_keyfile")
       \/ /\ Raise("IOError", "write_keyfile")
          /\ UNCHANGED files
       \/ /\ Raise("IOError", "write_keyfile")
          /\ \E part \in PartialItems(<<keyname>>, CutId) :
                files' = [files EXCEPT !["keyfile"] = WriteFile(@, part)]
    /\ UNCHANGED <<pwfile, provVars, config, localVars, histVars, waitVars, extVars>>

\* create_keypair, line 129
chmod_keyfile ==
    /\ pc = "chmod_keyfile"
    /\ files' = [files EXCEPT !["keyfile"] = Chmod600(@)]
    /\ Goto("ami_id_for", "chmod_keyfile")
    /\ UNCHANGED <<pwfile, provVars, config, localVars, histVars, waitVars, extVars>>

\* create_instance, line 145: source_ami is resolved
resolve_source_ami ==
    /\ pc = "ami_id_for"
    /\ \E name \in SourceAmis :
          \/ IF ami_id_for(name).found
             THEN Goto("user_data", "ami_id_for")
             ELSE Raise("ItemNotFound", "ami_id_for")
          \/ ami_id_for(name).lookups > 0 /\ Raise("ClientError", "ami_id_for")
    /\ UNCHANGED <<files, pwfile, provVars, config, localVars, histVars, waitVars, extVars>>

\* create_instance, line 155: user data, read from a file when given as one
read_user_data ==
    /\ pc = "user_data"
    /\ \/ Skip("subnet_id_for")
       \/ Raise("IOError", "user_data")
    /\ UNCHANGED <<files, pwfile, provVars, config, localVars, histVars, waitVars, extVars>>

\* create_instance, lines 157-159
resolve_subnet ==
    /\ pc = "subnet_id_for"
    /\ \E name \in Subnets :
          \/ IF name = <<>> THEN Skip("sg_id_for")
             ELSE IF subnet_id_for(name).found
                  THEN Goto("sg_id_for", "subnet_id_for")
                  ELSE Raise("ItemNotFound", "subnet_id_for")
          \/ /\ name # <<>> /\ subnet_id_for(name).lookups > 0
             /\ Raise("ClientError", "subnet_id_for")
    /\ UNCHANGED <<files, pwfile, provVars, config, localVars, histVars, waitVars, extVars>>

\* create_instance, lines 160-162
resolve_security_groups ==
    /\ pc = "sg_id_for"
    /\ \E names \in SecurityGroupLists :
          \/ IF names = <<>> THEN Skip("create_instances")
             ELSE IF \A i \in 1..Len(names) : sg_id_for(names[i]).found
                  THEN Goto("create_instances", "sg_id_for")
                  ELSE Raise("ItemNotFound", "sg_id_for")
          \/ /\ \E i \in 1..Len(names) :
                   /\ sg_id_for(names[i]).lookups > 0
                   /\ \A j \in 1..(i - 1) : sg_id_for(names[j]).found
             /\ Raise("ClientError", "sg_id_for")
    /\ UNCHANGED <<files, pwfile, provVars, config, localVars, histVars, waitVars, extVars>>

\* create_instance, line 164: one instance is requested under KeyName=keyname
create_instances ==
    /\ pc = "create_instances"
    /\ \/ /\ Len(instances) < MaxInstances
          /\ instances' = Append(instances,
                [state |-> "pending", keyname |-> keyname,
                 public_ip_address |-> "public", private_ip_address |-> "private"])
          /\ ec2_instance' = Len(instances) + 1
          /\ instCreated' = instCreated + 1
          /\ Goto("tags", "create_instances")
       \/ /\ Raise("ClientError", "create_instances")
          /\ UNCHANGED <<instances, ec2_instance, instCreated>>
    /\ UNCHANGED <<files, pwfile, keypairs, images, config, keyname, image, state,
                   password, todo, result, files0, kpCreated, attempts, failed, prev,
                   nOps, waitVars, extVars>>

\* create_instance with line 167 dropped: every instance is tagged
check_tags_always ==
    /\ pc = "tags"
    /\ Skip("wait_until_exists")
    /\ UNCHANGED <<files, pwfile, provVars, config, localVars, histVars, waitVars, extVars>>

\* create_instance, line 167: tags configured or not
check_tags ==
    /\ pc = "tags"
    /\ Skip(IF config.tags THEN "wait_until_exists" ELSE "wait_until_running")
    /\ UNCHANGED <<files, pwfile, provVars, config, localVars, histVars, waitVars, extVars>>

\* tag_instance, lines 132-133
wait_until_exists ==
    /\ pc = "wait_until_exists"
    /\ \/ Goto("create_tags", "wait_until_exists")
       \/ Raise("WaiterError", "wait_until_exists")
    /\ UNCHANGED <<files, pwfile, provVars, config, localVars, histVars, waitVars, extVars>>

\* tag_instance, lines 135-138
create_tags ==
    /\ pc = "create_tags"
    /\ \/ Goto("wait_until_running", "create_tags")
       \/ Raise("ClientError", "create_tags")
    /\ UNCHANGED <<files, pwfile, provVars, config, localVars, histVars, waitVars, extVars>>

\* create_instance, lines 170-171
wait_until_running ==
    /\ pc = "wait_until_running"
    /\ \/ /\ instances' = [instances EXCEPT ![ec2_instance].state = "running"]
          /\ Goto("reload", "wait_until_running")
       \/ /\ Raise("WaiterError", "wait_until_running")
          /\ UNCHANGED instances
    /\ UNCHANGED <<files, pwfile, keypairs, images, config, localVars, histVars,
                   waitVars, extVars>>

\* create_instance, line 173, and the branch of line 263
reload_instance ==
    /\ pc = "reload"
    /\ \/ Goto(IF config.connection = "winrm" THEN "password_data" ELSE "write_state",
               "reload")
       \/ Raise("ClientError", "reload")
    /\ UNCHANGED <<files, pwfile, provVars, config, localVars, histVars, waitVars, extVars>>

\* wait_for_password, lines 289-295: one poll
password_data ==
    /\ pc = "password_data"
    /\ \/ Goto("write_password_file", "password_data")
       \/ Skip("password_sleep")
       \/ Raise("ClientError", "password_data")
    /\ UNCHANGED <<files, pwfile, provVars, config, localVars, histVars, waitVars, extVars>>

\* wait_for_password, line 295
password_sleep ==
    /\ pc = "password_sleep"
    /\ Skip("password_data")
    /\ UNCHANGED <<files, pwfile, provVars, config, localVars, histVars, waitVars, extVars>>

\* load_or_create_instance, lines 265-267: a file of a new name
\* (tempfile.mktemp) is written in .boss
write_password_file ==
    /\ pc = "write_password_file"
    /\ \/ pwfile' = pwfile + 1 /\ Goto("decrypt_password", "write_password_file")
       \/ Raise("IOError", "write_password_file") /\ UNCHANGED pwfile
       \/ \E e \in {"IOError", "Error"} :
             pwfile' = pwfile + 1 /\ Raise(e, "write_password_file")
    /\ UNCHANGED <<files, provVars, config, localVars, histVars, waitVars, extVars>>

\* load_or_create_instance, line 268: openssl runs, or cannot be started
decrypt_password ==
    /\ pc = "decrypt_password"
    /\ \/ /\ password' = "secret"
          /\ Goto("unlink_password_file", "decrypt_password")
       \/ /\ Raise("OSError", "decrypt_password")
          /\ UNCHANGED password
    /\ UNCHANGED <<files, pwfile, provVars, config, keyname, ec2_instance, image,
                   state, todo, result, histVars, waitVars, extVars>>

\* load_or_create_instance, line 269: the file this invocation wrote is
\* removed; the files that earlier invocations left stay
unlink_password_file ==
    /\ pc = "unlink_password_file"
    /\ pwfile' = pwfile - 1
    /\ Goto("write_state", "unlink_password_file")
    /\ UNCHANGED <<files, provVars, config, localVars, histVars, waitVars, extVars>>

\* write_files, lines 229-241
write_state ==
    /\ pc = "write_state"
    /\ \/ /\ files' = [files EXCEPT !["state"] = WriteFile(@, safe_dump(
                [keyname |-> keyname,
                 build |-> [id |-> ec2_instance,
                            ip |-> IpAddress(instances[ec2_instance], config)]]))]
          /\ Goto("write_inventory", "write_state")
       \/ /\ Raise("IOError", "write_state")
          /\ UNCHANGED files
       \/ /\ Raise("IOError", "write_state")
          /\ \E part \in PartialDocs(safe_dump(
                [keyname |-> keyname,
                 build |-> [id |-> ec2_instance,
                            ip |-> IpAddress(instances[ec2_instance], config)]])) :
                files' = [files EXCEPT !["state"] = WriteFile(@, part)]
    /\ UNCHANGED <<pwfile, provVars, config, localVars, histVars, waitVars, extVars>>

\* write_files, lines 243-246, and write_inventory
write_inventory ==
    /\ pc = "write_inventory"
    /\ \/ /\ files' = [files EXCEPT !["inventory"] = Chmod600(WriteFile(@,
                <<"build">>))]
          /\ Goto("write_playbook", "write_inventory")
       \/ /\ Raise("IOError", "write_inventory")
          /\ UNCHANGED files
       \/ /\ Raise("IOError", "write_inventory")
          /\ \E part \in PartialItems(<<"build">>, CutText) :
                files' = [files EXCEPT !["inventory"] = WriteFile(@, part)]
    /\ UNCHANGED <<pwfile, provVars, config, localVars, histVars, waitVars, extVars>>

\* write_files, lines 248-253
write_playbook ==
    /\ pc = "write_playbook"
    /\ \/ /\ files' = [files EXCEPT !["playbook"] = WriteFile(@, <<"build">>)]
          /\ Goto("load_state", "write_playbook")
       \/ /\ Raise("IOError", "write_playbook")
          /\ UNCHANGED files
       \/ /\ Raise("IOError", "write_playbook")
          /\ \E part \in PartialItems(<<"build">>, CutText) :
                files' = [files EXCEPT !["playbook"] = WriteFile(@, part)]
    /\ UNCHANGED <<pwfile, provVars, config, localVars, histVars, waitVars, extVars>>

\* load_or_create_instance, lines 275-276
load_state ==
    /\ pc = "load_state"
    /\ IF yaml_load(files["state"].data) = YAMLError
       THEN Raise("YAMLError", "load_state") /\ UNCHANGED result
       ELSE result' = yaml_load(files["state"].data) /\ Return("load_state")
    /\ UNCHANGED <<files, pwfile, provVars, config, keyname, ec2_instance, image,
                   state, password, todo, histVars, waitVars, extVars>>


(* ----------------------------- clean_build ----------------------------- *)
\* mutant: the state file is removed as soon as it is loaded
clean_build_removes_state_first ==
    /\ Begin("clean_build")
    /\ IF StateExists(files)
       THEN /\ yaml_load(files["state"].data) # YAMLError
            /\ state' = yaml_load(files["state"].data)
            /\ files' = [files EXCEPT !["state"] = NoFile]
            /\ pc' = "terminate" /\ outcome' = ""
       ELSE UNCHANGED <<state, files>> /\ pc' = "done" /\ outcome' = "IOError"
    /\ UNCHANGED <<pwfile, provVars, config, keyname, ec2_instance, image,
                   password, todo, result, kpCreated, instCreated, attempts, failed,
                   prev, waitVars, extVars>>

\* lines 386-389: the state record is loaded, or open() raises
clean_build ==
    /\ Begin("clean_build")
    /\ IF StateExists(files)
       THEN IF yaml_load(files["state"].data) = YAMLError
            THEN UNCHANGED state /\ pc' = "done" /\ outcome' = "YAMLError"
            ELSE state' = yaml_load(files["state"].data) /\ pc' = "terminate"
                 /\ outcome' = ""
       ELSE UNCHANGED state /\ pc' = "done" /\ outcome' = "IOError"
    /\ UNCHANGED <<files, pwfile, provVars, config, keyname, ec2_instance, image,
                   password, todo, result, kpCreated, instCreated, attempts, failed, prev,
                   waitVars, extVars>>

\* state['build']['id'], lines 363 and 393: the exception it raises on a
\* state cut short, "" when it gives the id
BuildIdError(st) ==
    IF st = None THEN "TypeError"
    ELSE IF "build" \notin DOMAIN st THEN "KeyError"
    ELSE IF st["build"] = None THEN "TypeError"
    ELSE ""

\* lines 393-395: terminate is issued and not waited for; an id cut short
\* names no instance: ec2.Instance(id=None) raises ValueError, a shorter id
\* is refused by the provider
terminate_instance ==
    /\ pc = "terminate"
    /\ IF BuildIdError(state) # ""
       THEN Done(BuildIdError(state)) /\ UNCHANGED instances
       ELSE IF state["build"].id = CutId
       THEN /\ \/ Done("ValueError")
               \/ Raise("ClientError", "terminate")
            /\ UNCHANGED instances
       ELSE \/ /\ instances' = [instances EXCEPT
                                    ![state["build"].id].state = "terminated"]
               /\ Goto("delete_key_pair", "terminate")
            \/ /\ Raise("ClientError", "terminate")
               /\ UNCHANGED instances
    /\ UNCHANGED <<files, pwfile, keypairs, images, config, localVars, histVars,
                   waitVars, extVars>>

\* mutant: lines 397-398 left out, the keypair stays with the provider
delete_key_pair_left_out ==
    /\ pc = "delete_key_pair"
    /\ todo' = {instance_files[f] : f \in FileNames}
    /\ Goto("unlink", "delete_key_pair")
    /\ UNCHANGED <<files, pwfile, keypairs, instances, images, config, keyname,
                   ec2_instance, image, state, password, result, histVars, waitVars,
                   extVars>>

\* lines 397-399, and the removal loop of line 401 is entered; a key name
\* cut short names no keypair: ec2.KeyPair(name=None) raises ValueError, and
\* the provider deletes nothing under a shorter name
delete_key_pair ==
    /\ pc = "delete_key_pair"
    /\ IF "keyname" \notin DOMAIN state
       THEN Done("KeyError") /\ UNCHANGED <<keypairs, todo>>
       ELSE \/ /\ keypairs' = keypairs \ {state["keyname"]}
               /\ todo' = {instance_files[f] : f \in FileNames}
               /\ Goto("unlink", "delete_key_pair")
            \/ /\ Raise("ClientError", "delete_key_pair")
               /\ UNCHANGED <<keypairs, todo>>
            \/ /\ state["keyname"] = CutId
               /\ Done("ValueError")
               /\ UNCHANGED <<keypairs, todo>>
    /\ UNCHANGED <<files, pwfile, instances, images, config, keyname, ec2_instance,
                   image, state, password, result, histVars, waitVars, extVars>>

\* mutant: OSError is not caught, clean_build raises at the first failure
unlink_error_raised(f) ==
    /\ failed' = failed \cup {f} /\ todo' = todo \ {f}
    /\ pc' = "done" /\ outcome' = "OSError" /\ UNCHANGED <<op, log>>

\* lines 404-405: OSError is caught, the loop goes on with the next file
unlink_error(f) == failed' = failed \cup {f} /\ todo' = todo \ {f} /\ Skip("unlink")

\* lines 401-405: one pass of the removal loop; the file is removed, or
\* os.unlink raises OSError (the file is missing or cannot be removed)
unlink_file ==
    /\ pc = "unlink"
    /\ \E f \in todo :
          /\ attempts' = [attempts EXCEPT ![f] = @ + 1]
          /\ \/ /\ files[f].exists
                /\ files' = [files EXCEPT ![f] = NoFile]
                /\ todo' = todo \ {f}
                /\ Skip("unlink")
                /\ UNCHANGED failed
             \/ /\ unlink_error(f)
                /\ UNCHANGED files
    /\ UNCHANGED <<pwfile, provVars, config, keyname, ec2_instance, image, state,
                   password, result, files0, kpCreated, instCreated, prev, nOps,
                   waitVars, extVars>>

\* line 401: the loop has visited every file, clean_build returns
clean_build_return ==
    /\ pc = "unlink" /\ todo = {}
    /\ Done("ok")
    /\ kpCreated' = 0 /\ instCreated' = 0
    /\ UNCHANGED <<files, pwfile, provVars, config, localVars, files0, attempts, failed, prev,
                   nOps, waitVars, extVars>>

(* ------------------------------ make_image ----------------------------- *)
\* lines 359-361
make_image ==
    /\ Begin("make_image")
    /\ IF StateExists(files)
       THEN IF yaml_load(files["state"].data) = YAMLError
            THEN UNCHANGED state /\ pc' = "done" /\ outcome' = "YAMLError"
            ELSE state' = yaml_load(files["state"].data) /\ pc' = "instance_load"
                 /\ outcome' = ""
       ELSE UNCHANGED state /\ pc' = "done" /\ outcome' = "IOError"
    /\ UNCHANGED <<files, pwfile, provVars, config, keyname, ec2_instance, image,
                   password, todo, result, kpCreated, instCreated, attempts, failed, prev,
                   waitVars, extVars>>

\* lines 363-375: the instance attributes are fetched and the name
\* interpolated; config['ami_name'] % config raises KeyError for a config
\* without ami_name, or with a name that refers to a key config has not,
\* ValueError for a name whose format is malformed, TypeError for a name
\* whose format does not fit the value of the key; before it role_version
\* (line 369, lines 179-185) reads .role-version when that exists, and the
\* open or the read raises IOError
instance_load ==
    /\ pc = "instance_load"
    /\ IF BuildIdError(state) # ""
       THEN Done(BuildIdError(state)) /\ UNCHANGED ec2_instance
       ELSE IF state["build"].id = CutId
       THEN /\ \/ Done("ValueError")
               \/ Raise("ClientError", "instance_load")
            /\ UNCHANGED ec2_instance
       ELSE \/ /\ ec2_instance' = state["build"].id
               /\ Goto("create_image", "instance_load")
            \/ /\ Raise("ClientError", "instance_load")
               /\ UNCHANGED ec2_instance
            \/ /\ \E e \in {"IOError", "KeyError", "ValueError", "TypeError"} :
                     Raise(e, "instance_load")
               /\ UNCHANGED ec2_instance
    /\ UNCHANGED <<files, pwfile, provVars, config, keyname, image, state, password,
                   todo, result, histVars, waitVars, extVars>>

\* line 376
create_image ==
    /\ pc = "create_image"
    /\ \/ /\ Len(images) < MaxImages
          /\ images' = Append(images, [state |-> "pending", instance |-> ec2_instance])
          /\ image' = Len(images) + 1
          /\ Goto("wait_for_image", "create_image")
       \/ /\ Raise("ClientError", "create_image")
          /\ UNCHANGED <<images, image>>
    /\ UNCHANGED <<files, pwfile, keypairs, instances, config, keyname, ec2_instance,
                   state, password, todo, result, histVars, waitVars, extVars>>

\* image.state == 'available', line 282
ImageAvailable(img) == img.state = "available"

\* wait_for_image, lines 280-285: one poll
wait_for_image ==
    /\ pc = "wait_for_image"
    /\ \/ ImageAvailable(images[image]) /\ Goto("record_ami_id", "image_available")
       \/ ~ImageAvailable(images[image]) /\ Skip("image_sleep")
       \/ Raise("ClientError", "image_reload")
    /\ UNCHANGED <<files, pwfile, provVars, config, localVars, histVars, waitVars, extVars>>

\* wait_for_image, line 285
image_sleep ==
    /\ pc = "image_sleep"
    /\ Skip("wait_for_image")
    /\ UNCHANGED <<files, pwfile, provVars, config, localVars, histVars, waitVars, extVars>>

\* lines 381-383: the image id is added to the state and the state is written
record_ami_id ==
    /\ pc = "record_ami_id"
    /\ state' = SetAmiId(state, image)
    /\ \/ /\ files' = [files EXCEPT !["state"] = WriteFile(@, safe_dump(state'))]
          /\ Return("write_state")
       \/ /\ Raise("IOError", "write_state")
          /\ UNCHANGED files
       \/ /\ Raise("IOError", "write_state")
          /\ \E part \in PartialDocs(safe_dump(state')) :
                files' = [files EXCEPT !["state"] = WriteFile(@, part)]
    /\ UNCHANGED <<pwfile, provVars, config, keyname, ec2_instance, image, password,
                   todo, result, histVars, waitVars, extVars>>

\* the provider finishes the bake of a pending image
image_progress ==
    /\ \E i \in 1..Len(images) :
          /\ images[i].state = "pending"
          /\ images' = [images EXCEPT ![i].state = "available"]
    /\ UNCHANGED <<files, pwfile, keypairs, instances, pc, op, outcome, config,
                   localVars, log, histVars, waitVars, extVars>>

(* ----------------------------- clean_image ----------------------------- *)
\* lines 408-410
clean_image ==
    /\ Begin("clean_image")
    /\ IF StateExists(files)
       THEN IF yaml_load(files["state"].data) = YAMLError
            THEN UNCHANGED state /\ pc' = "done" /\ outcome' = "YAMLError"
            ELSE state' = yaml_load(files["state"].data) /\ pc' = "images_filter"
                 /\ outcome' = ""
       ELSE UNCHANGED state /\ pc' = "done" /\ outcome' = "IOError"
    /\ UNCHANGED <<files, pwfile, provVars, config, keyname, ec2_instance, image,
                   password, todo, result, kpCreated, instCreated, attempts, failed, prev,
                   waitVars, extVars>>

\* images.filter(ImageIds=[id]), line 414: the registered images of that id
Registered(id) ==
    {i \in DOMAIN images : i = id /\ images[i].state # "deregistered"}

\* mutant: without an ami_id in the state the lookup is not filtered and
\* gives an image that is registered
images_filter_unfiltered ==
    /\ pc = "images_filter"
    /\ \/ /\ \E i \in DOMAIN images :
                /\ images[i].state # "deregistered"
                /\ "ami_id" \in DOMAIN state => i = state["ami_id"]
                /\ image' = i
          /\ Goto("deregister", "images_filter")
       \/ /\ ~\E i \in DOMAIN images :
                /\ images[i].state # "deregistered"
                /\ "ami_id" \in DOMAIN state => i = state["ami_id"]
          /\ Raise("ValueError", "images_filter")
          /\ UNCHANGED image
       \/ /\ Raise("ClientError", "images_filter")
          /\ UNCHANGED image
    /\ UNCHANGED <<files, pwfile, provVars, config, keyname, ec2_instance, state,
                   password, todo, result, histVars, waitVars, extVars>>

\* lines 412-415: state['ami_id'] is read and the image looked up by that
\* id; an id cut short names no image: None is refused before the call
\* (ParamValidationError), a shorter id by the provider (ClientError), or the
\* lookup is empty and the unpacking raises ValueError; the lookup of a whole
\* id gives the image, or nothing once the image is deregistered, and then
\* the unpacking (image,) = ... raises ValueError
images_filter ==
    /\ pc = "images_filter"
    /\ IF "ami_id" \notin DOMAIN state
       THEN Done(IF state = None THEN "TypeError" ELSE "KeyError") /\ UNCHANGED image
       ELSE IF state["ami_id"] = CutId
       THEN /\ \E e \in {"ParamValidationError", "ClientError", "ValueError"} :
                  Raise(e, "images_filter")
            /\ UNCHANGED image
       ELSE \/ /\ Registered(state["ami_id"]) # {}
               /\ image' = state["ami_id"]
               /\ Goto("deregister", "images_filter")
            \/ /\ Registered(state["ami_id"]) = {}
               /\ Raise("ValueError", "images_filter")
               /\ UNCHANGED image
            \/ /\ Raise("ClientError", "images_filter")
               /\ UNCHANGED image
    /\ UNCHANGED <<files, pwfile, provVars, config, keyname, ec2_instance, state,
                   password, todo, result, histVars, waitVars, extVars>>

\* line 416
deregister ==
    /\ pc = "deregister"
    /\ \/ /\ images' = [images EXCEPT ![image].state = "deregistered"]
          /\ Goto("remove_ami_id", "deregister")
       \/ /\ Raise("ClientError", "deregister")
          /\ UNCHANGED images
    /\ UNCHANGED <<files, pwfile, keypairs, instances, config, localVars, histVars,
                   waitVars, extVars>>

\* lines 418-420
remove_ami_id ==
    /\ pc = "remove_ami_id"
    /\ state' = DelAmiId(state)
    /\ \/ /\ files' = [files EXCEPT !["state"] = WriteFile(@, safe_dump(state'))]
          /\ Return("write_state")
       \/ /\ Raise("IOError", "write_state")
          /\ UNCHANGED files
       \/ /\ Raise("IOError", "write_state")
          /\ \E part \in PartialDocs(safe_dump(state')) :
                files' = [files EXCEPT !["state"] = WriteFile(@, part)]
    /\ UNCHANGED <<pwfile, provVars, config, keyname, ec2_instance, image, password,
                   todo, result, histVars, waitVars, extVars>>

(* --------------------------- between operations ------------------------ *)
\* the process of the finished invocation exits: its locals are gone, the
\* files and the provider's resources stay
finish ==
    /\ pc = "done"
    /\ pc' = "idle" /\ op' = "" /\ outcome' = ""
    /\ config' = NoConfig
    /\ keyname' = 0 /\ ec2_instance' = 0 /\ image' = 0
    /\ state' = NoState /\ password' = "" /\ todo' = {} /\ result' = NoState
    /\ log' = <<>>
    /\ files0' = [f \in FileNames |-> NoFile]
    /\ attempts' = NoAttempts
    /\ failed' = {}
    /\ prev' = IF op = "make_image" /\ outcome = "ok"
               THEN [op |-> op, ok |-> TRUE, before |-> files0["state"].data,
                     image |-> image]
               ELSE [op |-> op, ok |-> outcome = "ok", before |-> <<>>, image |-> 0]
    /\ UNCHANGED <<files, pwfile, provVars, kpCreated, instCreated, nOps, waitVars, extVars>>

Next ==
    \/ load_or_create_instance \/ create_key_pair \/ write_keyfile \/ chmod_keyfile
    \/ resolve_source_ami \/ read_user_data \/ resolve_subnet
    \/ resolve_security_groups \/ create_instances \/ check_tags
    \/ wait_until_exists \/ create_tags \/ wait_until_running \/ reload_instance
    \/ password_data \/ password_sleep \/ write_password_file \/ decrypt_password
    \/ unlink_password_file \/ write_state \/ write_inventory \/ write_playbook
    \/ load_state
    \/ clean_build \/ terminate_instance \/ delete_key_pair \/ unlink_file
    \/ clean_build_return
    \/ make_image \/ instance_load \/ create_image \/ wait_for_image \/ image_sleep
    \/ record_ami_id \/ image_progress
    \/ clean_image \/ images_filter \/ deregister \/ remove_ami_id
    \/ finish

Spec == Init /\ [][Next]_vars


(* -------------------------- wait_for_connection ------------------------ *)
\* wait_for_connection is entered at some time with some deadline
InitWait ==
    /\ LifeInit
    /\ now \in 0..MaxStart /\ end \in 0..MaxEnd
    /\ wpc = "top" /\ nTcp = 0 /\ nExec = 0
    /\ tcpOk = FALSE /\ ret = -1 /\ started = -1
    /\ t0 = now
    /\ ExtIdle

\* mutant: the deadline is compared one sleep late
DeadlinePassed_late(t, e) == t > e + SleepSecs

\* line 302: time.time() > end
DeadlinePassed(t, e) == t > e

\* lines 301-306: the deadline is checked at the top of the iteration, then
\* the TCP connect is started
check_deadline ==
    /\ wpc = "top"
    /\ IF DeadlinePassed(now, end)
       THEN wpc' = "timeout" /\ UNCHANGED <<nTcp, started>>
       ELSE wpc' = "tcp" /\ nTcp' = nTcp + 1 /\ started' = now
    /\ tcpOk' = FALSE
    /\ UNCHANGED <<lifeVars, extVars, now, end, nExec, ret, t0>>

\* line 306: socket.create_connection((addr, port), 1) returns or raises
\* within its timeout; lines 310-313: on success the command check starts
tcp_connect ==
    /\ wpc = "tcp"
    /\ \E d \in 0..TcpTimeout, ok \in BOOLEAN :
          /\ now' = now + d
          /\ tcpOk' = ok
          /\ IF ok THEN wpc' = "exec" /\ nExec' = nExec + 1
                   ELSE wpc' = "sleep" /\ UNCHANGED nExec
    /\ UNCHANGED <<lifeVars, extVars, end, nTcp, ret, started, t0>>

\* exit codes of the command check; -1: the command could not be started
ExitCodes == {-1, 0, 1, 2}

\* mutant: every exit code of a started command leaves the loop
CheckPassed_started(r) == r >= 0

\* line 314: if ret == 0: break
CheckPassed(r) == r = 0

\* lines 311-316: the command check ends; exit code 0 leaves the loop, any
\* other outcome raises into the bare except
exec_check ==
    /\ wpc = "exec"
    /\ \E d \in 0..MaxExecSecs, r \in ExitCodes :
          /\ now' = now + d
          /\ ret' = r
          /\ wpc' = IF CheckPassed(r) THEN "returned" ELSE "sleep"
    /\ UNCHANGED <<lifeVars, extVars, end, nTcp, nExec, tcpOk, started, t0>>

\* lines 316-317: except: time.sleep(15), then the loop starts over
sleep ==
    /\ wpc = "sleep"
    /\ now' = now + SleepSecs
    /\ wpc' = "top"
    /\ UNCHANGED <<lifeVars, extVars, end, nTcp, nExec, tcpOk, ret, started, t0>>

NextWait == check_deadline \/ tcp_connect \/ exec_check \/ sleep

SpecWait == InitWait /\ [][NextWait]_vars

\* time advances and every attempt terminates
LiveWait == SpecWait /\ WF_vars(NextWait)


(* ----------------------- configuration resolution ---------------------- *)
\* fields of an instance configuration that the model follows
Fields == {"source_ami", "instance_type", "port", "extra_vars"}

\* two values of the type of each field
FieldValues ==
    [source_ami |-> <<"ami-1", "c7">>,
     instance_type |-> <<"t2.micro", "m3.medium">>,
     port |-> <<"22", "5986">>,
     extra_vars |-> <<"{}", "{x: 1}">>]

\* names of platforms and profiles
NameA == <<"a">>
NameB == <<"b">>
NameAA == <<"a", "-", "a">>
Names == {NameA, NameAA, NameB}
DefaultName == <<"d", "e", "f", "a", "u", "l", "t">>

\* '{}-{}'.format(platform['name'], profile['name'])
InstanceKey(platform, profile) == platform \o <<"-">> \o profile

\* default_profiles of pre_merge_schema, and the default of validate_v2
default_profiles == << [name |-> DefaultName, extra_vars |-> "{}"] >>

\* pre_merge_schema: the driver and profiles keys get their defaults, any
\* other key is allowed
pre_merge_schema(d) == Update([driver |-> EmptyDict, profiles |-> default_profiles], d)

\* merge_config, lines 521-532: the configuration of one instance
merge_instance(c, platform, profile) ==
    LET fromPlatform == Update(Without(platform, {"name"}),
                               [platform |-> platform["name"]])
        withDefaults == Update(fromPlatform, Without(c["defaults"], DOMAIN platform))
        withProfile == Update(withDefaults, Without(profile, {"name"}))
    IN  Update(withProfile, [profile |-> profile["name"]])

\* the (platform, profile) pair whose turn in the nested loops comes last
\* among those of instance key k
LastPair(platforms, profiles, k) ==
    LET pairs == {ij \in (1..Len(platforms)) \X (1..Len(profiles)) :
                    InstanceKey(platforms[ij[1]]["name"], profiles[ij[2]]["name"]) = k}
    IN  CHOOSE ij \in pairs :
            \A o \in pairs : o[1] < ij[1] \/ (o[1] = ij[1] /\ o[2] <= ij[2])

\* the keys the nested loops assign to
InstanceKeys(platforms, profiles) ==
    {InstanceKey(platforms[i]["name"], profiles[j]["name"]) :
        i \in 1..Len(platforms), j \in 1..Len(profiles)}

\* merge_config: a later pair of the loops overwrites an earlier one
merge_config(c) ==
    [k \in InstanceKeys(c["platforms"], c["profiles"]) |->
        LET ij == LastPair(c["platforms"], c["profiles"], k)
        IN  merge_instance(c, c["platforms"][ij[1]], c["profiles"][ij[2]])]

ConfigurationError == [status |-> "ConfigurationError", config |-> EmptyDict]

\* post_merge_schema: source_ami and instance_type are required, no key
\* outside the schema is allowed, optional fields get their defaults
post_merge_schema(merged) ==
    IF \A k \in DOMAIN merged :
          /\ DOMAIN merged[k] \subseteq Fields \cup {"platform", "profile"}
          /\ {"source_ami", "instance_type"} \subseteq DOMAIN merged[k]
    THEN [status |-> "ok",
          config |-> [k \in DOMAIN merged |->
                        Update([extra_vars |-> "{}", port |-> "22"], merged[k])]]
    ELSE ConfigurationError

\* load_config, lines 484-491
load_config_result(d) ==
    LET c == pre_merge_schema(d)
        renamed == IF "driver" \in DOMAIN c
                   THEN Without(Update(c, [defaults |-> c["driver"]]), {"driver"})
                   ELSE c
        withDefaults == IF "defaults" \notin DOMAIN renamed
                        THEN Update(renamed, [defaults |-> EmptyDict])
                        ELSE renamed
    IN  post_merge_schema(merge_config(withDefaults))

\* validate_v2: the keys of base, and of build
BaseKeys == {"instance_type", "port"}
BuildKeys == BaseKeys \cup {"source_ami", "extra_vars"}

\* validate_v2: the document passes the schema
valid_v2(d) ==
    /\ DOMAIN d \subseteq {"defaults", "platforms", "profiles"}
    /\ "defaults" \in DOMAIN d => DOMAIN d["defaults"] \subseteq BaseKeys
    /\ \A i \in 1..Len(d["platforms"]) :
          LET platform == d["platforms"][i]
          IN  /\ DOMAIN platform \subseteq BaseKeys \cup {"name", "build", "test"}
              /\ {"name", "build"} \subseteq DOMAIN platform
              /\ DOMAIN platform["build"] \subseteq BuildKeys
              /\ "source_ami" \in DOMAIN platform["build"]
              /\ "test" \in DOMAIN platform => DOMAIN platform["test"] \subseteq BaseKeys
    /\ "profiles" \in DOMAIN d =>
          \A j \in 1..Len(d["profiles"]) :
              /\ DOMAIN d["profiles"][j] \subseteq {"name", "extra_vars"}
              /\ "name" \in DOMAIN d["profiles"][j]

\* validate_v2: the validated document, defaults filled in
validate_v2(d) ==
    [defaults |-> Update([instance_type |-> "t2.micro", port |-> "22"],
                         IF "defaults" \in DOMAIN d THEN d["defaults"] ELSE EmptyDict),
     platforms |-> [i \in 1..Len(d["platforms"]) |->
        LET platform == d["platforms"][i]
        IN  Update(Update([test |-> EmptyDict], platform),
                   [build |-> Update([extra_vars |-> "{}"], platform["build"])])],
     profiles |-> IF "profiles" \in DOMAIN d
                  THEN [j \in 1..Len(d["profiles"]) |->
                           Update([extra_vars |-> "{}"], d["profiles"][j])]
                  ELSE default_profiles]

excluded_items == {"name", "build", "test"}

\* transform_config, lines 661-681: the configuration of one instance
transform_instance(validated, platform, profile) ==
    LET build1 == Update(validated["defaults"], Without(platform, excluded_items))
        build2 == Update(build1, platform["build"])
        build3 == Update(build2, [extra_vars |-> profile["extra_vars"],
                                  platform |-> platform["name"],
                                  profile |-> profile["name"]])
        test1 == Update(validated["defaults"], Without(platform, excluded_items))
        build4 == Update(build3, platform["test"])
    IN  [build |-> build4, test |-> test1,
         platform |-> platform["name"], profile |-> profile["name"]]

\* transform_config
transform_config(d) ==
    IF valid_v2(d)
    THEN LET validated == validate_v2(d)
         IN  [status |-> "ok",
              config |-> [k \in InstanceKeys(validated["platforms"],
                                             validated["profiles"]) |->
                 LET ij == LastPair(validated["platforms"], validated["profiles"], k)
                 IN  transform_instance(validated, validated["platforms"][ij[1]],
                                        validated["profiles"][ij[2]])]]
    ELSE ConfigurationError

(* ------------------------ configuration documents ---------------------- *)
\* where a document sets a field: driver, defaults, platform, the build
\* stage and the test stage of the platform, profile
Levels == {"driver", "defaults", "platform", "build", "test", "profile"}
Slots == Levels \X Fields

\* the sets of at most n slots
RECURSIVE SlotSets(_)
SlotSets(n) ==
    IF n = 0 THEN {{}}
    ELSE LET smaller == SlotSets(n - 1)
         IN  smaller \cup {T \cup {s} : T \in smaller, s \in Slots}

\* the dict a document has at one level: settings picks a value for some slots
LevelDict(settings, level) ==
    [f \in {g \in Fields : <<level, g>> \in DOMAIN settings} |->
        FieldValues[f][settings[<<level, f>>]]]

\* a key is present when its dict is not empty
KeyIf(key, d) == IF d = EmptyDict THEN EmptyDict ELSE [k \in {key} |-> d]

\* the document with the given platform names and profile names (profiles
\* is left out when not declared); the first platform and the first profile
\* carry the settings, a build stage is repeated in every platform
Document(pnames, declared, qnames, settings) ==
    LET build == KeyIf("build", LevelDict(settings, "build"))
        platforms == [i \in 1..Len(pnames) |->
            IF i = 1
            THEN Update(Update(Update([name |-> pnames[i]],
                                      LevelDict(settings, "platform")), build),
                        KeyIf("test", LevelDict(settings, "test")))
            ELSE Update([name |-> pnames[i]], build)]
        profiles == [j \in 1..Len(qnames) |->
            IF j = 1 THEN Update([name |-> qnames[j]], LevelDict(settings, "profile"))
            ELSE [name |-> qnames[j]]]
    IN  Update(Update(Update([platforms |-> platforms],
                             KeyIf("driver", LevelDict(settings, "driver"))),
                      KeyIf("defaults", LevelDict(settings, "defaults"))),
               IF declared THEN [profiles |-> profiles] ELSE EmptyDict)

\* lists of at least lo and at most hi names
NameLists(lo, hi) == UNION {[1..n -> Names] : n \in lo..hi}

\* settings that make a document valid for load_config, for load_config_v2
LegacySettings ==
    [s \in {<<"driver", "source_ami">>, <<"driver", "instance_type">>} |-> 1]
NestedSettings == [s \in {<<"build", "source_ami">>} |-> 1]

\* the documents resolved: every list of at most np platform names and nq
\* profile names with settings that are valid in one mode, and two
\* platforms with every choice of at most n settings
Documents(np, nq, n) ==
    {Document(pn, TRUE, qn, st) :
        pn \in NameLists(1, np), qn \in NameLists(0, nq),
        st \in {LegacySettings, NestedSettings}}
    \cup {Document(pn, FALSE, <<>>, st) :
        pn \in NameLists(1, np), st \in {LegacySettings, NestedSettings}}
    \cup {Document(<<NameA, NameB>>, declared, <<NameB>>, st) :
        declared \in BOOLEAN,
        st \in UNION {[S -> {1, 2}] : S \in SlotSets(n)}}

InitConfig ==
    /\ LifeInit /\ WaitIdle /\ ResolverIdle /\ RunIdle /\ SpinnerInit
    /\ doc \in Documents(MaxPlatforms, MaxProfiles, MaxSet)
    /\ loaded = NotLoaded /\ loaded_v2 = NotLoaded

\* load_config returns the resolved configuration or raises
load_config ==
    /\ loaded = NotLoaded
    /\ loaded' = load_config_result(doc)
    /\ UNCHANGED <<lifeVars, waitVars, resolverVars, runVars, spinVars, doc, loaded_v2>>

\* load_config_v2, lines 506-507
load_config_v2 ==
    /\ loaded_v2 = NotLoaded
    /\ loaded_v2' = transform_config(doc)
    /\ UNCHANGED <<lifeVars, waitVars, resolverVars, runVars, spinVars, doc, loaded>>

NextConfig == load_config \/ load_config_v2

SpecConfig == InitConfig /\ [][NextConfig]_vars


(* --------------------------- resource resolver ------------------------- *)
\* names given to resource_id_for: ids, names of items, names of nothing
ResolverNames ==
    { AmiPrefix \o <<"1">>, SgPrefix \o <<"9">>, AmiPrefix, <<"a", "m", "i">>,
      <<"c", "7">>, <<"w", "e", "b">>, <<"x">>, <<>> }

\* items a service may hold
ResolverItems ==
    [id : {AmiPrefix \o <<"7">>, SgPrefix \o <<"5">>},
     name : {<<"c", "7">>, <<"w", "e", "b">>}]

\* resource_id_for is called for a name, with the prefix of ami_id_for,
\* sg_id_for or subnet_id_for, on a service holding at most MaxItems items
InitResolver ==
    /\ LifeInit /\ WaitIdle /\ ConfIdle /\ RunIdle /\ SpinnerInit
    /\ lookup \in [service : UNION {[1..n -> ResolverItems] : n \in 0..MaxItems},
                   name : ResolverNames,
                   prefix : {AmiPrefix, SgPrefix, SubnetPrefix}]
    /\ resolved = NotResolved

\* resource_id_for returns or raises
resolve ==
    /\ resolved = NotResolved
    /\ resolved' = resource_id_for(lookup.service, lookup.name, lookup.prefix)
    /\ UNCHANGED <<lifeVars, waitVars, confVars, runVars, spinVars, lookup>>

NextResolver == resolve

SpecResolver == InitResolver /\ [][NextResolver]_vars

(* --------------------------------- run --------------------------------- *)
\* values of config['connection_timeout'] (seconds)
ConnectionTimeouts == {0, 16}

\* return codes of a child process: exit codes, and -9 for a child killed
\* by signal 9 (Popen.wait)
ReturnCodes == {0, 1, 2, 255, -9}

\* cli make_build, core.py lines 320-323: run begins, create_working_dir
\* finds or makes .boss, and load_or_create_instance is called; or os.mkdir
\* raises OSError (lines 109-110: .boss is a dangling link, the directory
\* is not writable) and run raises with nothing launched
run ==
    /\ rpc = "off" /\ pc = "idle" /\ nOps < MaxRuns
    /\ \/ /\ rpc' = "ensure"
          /\ launched' = <<"load_or_create_instance">>
          /\ UNCHANGED raised
       \/ /\ rpc' = "raised" /\ raised' = "OSError"
          /\ UNCHANGED launched
    /\ UNCHANGED <<lifeVars, waitVars, confVars, resolverVars, spinVars, rets>>

\* instance_info['build']['ip'], line 325: the exception it raises on a
\* state cut short, "" when it gives the address
IpError(info) ==
    IF BuildIdError(info) # "" THEN BuildIdError(info)
    ELSE IF "ip" \notin DOMAIN info["build"] THEN "KeyError"
    ELSE ""

\* lines 323-325: load_or_create_instance raised, and so does run; or it
\* returned a state on which instance_info['build']['ip'] raises
ensure_raised ==
    /\ rpc = "ensure" /\ pc = "done"
    /\ outcome # "ok" \/ IpError(result) # ""
    /\ rpc' = "raised" /\ raised' = IF outcome # "ok" THEN outcome ELSE IpError(result)
    /\ UNCHANGED <<lifeVars, waitVars, confVars, resolverVars, spinVars, launched, rets>>

\* time that passes between time.time() of line 327 and the first
\* time.time() of line 302 (the Spinner is set up in between), in the
\* model's unit: none, or enough for the clock to pass a deadline of now
EnterDelays == {0, 1}

\* lines 325-329: the deadline is set, the Spinner entered and
\* wait_for_connection called; the clock goes on in between
enter_wait ==
    /\ rpc = "ensure" /\ pc = "done" /\ outcome = "ok" /\ IpError(result) = ""
    /\ \E connection_timeout \in ConnectionTimeouts : end' = now + connection_timeout
    /\ \E d \in EnterDelays : now' = now + d
    /\ wpc' = "top" /\ t0' = now'
    /\ rpc' = "wait"
    /\ launched' = Append(launched, "wait_for_connection")
    /\ UNCHANGED <<lifeVars, confVars, resolverVars, spinVars, rets, raised, nTcp, nExec,
                   tcpOk, ret, started>>

\* mutant: the timeout is swallowed
AfterWait_swallowed(w) == "galaxy"

\* lines 328-329: where run goes when wait_for_connection ended at w
AfterWait(w) == IF w = "returned" THEN "galaxy" ELSE "raised"

\* line 328, Spinner.__exit__: run goes on after the wait, or blocks on the
\* handoff of a ticker that never stops
leave_wait ==
    /\ rpc = "wait" /\ wpc \in {"returned", "timeout"}
    /\ \/ /\ rpc' = AfterWait(wpc)
          /\ raised' = IF rpc' = "raised" THEN "ConnectionTimeout" ELSE ""
       \/ rpc' = "blocked" /\ UNCHANGED raised
    /\ UNCHANGED <<lifeVars, waitVars, confVars, resolverVars, spinVars, launched, rets>>

\* lines 335-339: ansible-galaxy is launched and waited for, its return code
\* is not looked at; or it cannot be launched
ansible_galaxy ==
    /\ rpc = "galaxy"
    /\ \/ /\ \E code \in {0, 1} : rets' = [rets EXCEPT !.galaxy = <<code>>]
          /\ launched' = Append(launched, "ansible-galaxy")
          /\ rpc' = "playbook"
          /\ UNCHANGED raised
       \/ /\ rpc' = "raised" /\ raised' = "OSError"
          /\ UNCHANGED <<launched, rets>>
    /\ UNCHANGED <<lifeVars, waitVars, confVars, resolverVars, spinVars>>

\* mutant: run returns the return code of ansible-galaxy
RunReturn_galaxy(galaxy, playbook) == galaxy

\* line 350: return ansible_playbook.wait()
RunReturn(galaxy, playbook) == playbook

\* lines 343-350: ansible-playbook is launched and waited for
ansible_playbook ==
    /\ rpc = "playbook"
    /\ \/ /\ \E code \in ReturnCodes :
                rets' = [rets EXCEPT !.playbook = <<code>>,
                                     !.run = <<RunReturn(rets.galaxy[1], code)>>]
          /\ launched' = Append(launched, "ansible-playbook")
          /\ rpc' = "returned"
          /\ UNCHANGED raised
       \/ /\ rpc' = "raised" /\ raised' = "OSError"
          /\ UNCHANGED <<launched, rets>>
    /\ UNCHANGED <<lifeVars, waitVars, confVars, resolverVars, spinVars>>

\* the exit status of a process that calls sys.exit(code)
ExitStatus(code) == code % 256

\* cli.py line 111: sys.exit(bc.make_build(...)); an exception that run
\* raised ends the process with status 1
sys_exit ==
    /\ rpc \in {"returned", "raised"}
    /\ rets' = [rets EXCEPT !.exit = IF rpc = "returned" THEN <<ExitStatus(rets.run[1])>>
                                     ELSE <<1>>]
    /\ rpc' = "exited"
    /\ UNCHANGED <<lifeVars, waitVars, confVars, resolverVars, spinVars, launched, raised>>

\* the next invocation of the tool starts from a new process
next_process ==
    /\ rpc = "exited" /\ pc = "idle"
    /\ rpc' = "off" /\ launched' = <<>> /\ rets' = NoRets /\ raised' = ""
    /\ now' = 0 /\ end' = 0 /\ wpc' = "off" /\ nTcp' = 0 /\ nExec' = 0
    /\ tcpOk' = FALSE /\ ret' = -1 /\ started' = -1 /\ t0' = 0
    /\ UNCHANGED <<lifeVars, confVars, resolverVars, spinVars>>

NextRun ==
    \/ run
    \/ (rpc = "ensure" /\ load_or_create_instance)
    \/ create_key_pair \/ write_keyfile \/ chmod_keyfile
    \/ resolve_source_ami \/ read_user_data \/ resolve_subnet
    \/ resolve_security_groups \/ create_instances \/ check_tags
    \/ wait_until_exists \/ create_tags \/ wait_until_running \/ reload_instance
    \/ password_data \/ password_sleep \/ write_password_file \/ decrypt_password
    \/ unlink_password_file \/ write_state \/ write_inventory \/ write_playbook
    \/ load_state
    \/ ensure_raised \/ enter_wait
    \/ check_deadline \/ tcp_connect \/ exec_check \/ sleep
    \/ leave_wait \/ ansible_galaxy \/ ansible_playbook \/ sys_exit
    \/ (rpc = "exited" /\ finish)
    \/ next_process

SpecRun == Init /\ [][NextRun]_vars

(* ------------------------------- Spinner ------------------------------- *)
otherVars == <<lifeVars, waitVars, confVars, resolverVars, runVars>>

\* __enter__, line 58: self.start(); the ticker thread exists from here on
spinner_enter ==
    /\ ppc = "enter"
    /\ ppc' = "body" /\ tpc' = "msg"
    /\ UNCHANGED <<otherVars, running, q, chars, body, after>>

\* the body of the with statement (the wait) returns or raises
body_concludes ==
    /\ ppc = "body"
    /\ \E b \in {"returned", "raised"} : body' = b
    /\ ppc' = "exit"
    /\ UNCHANGED <<otherVars, tpc, running, q, chars, after>>

\* __exit__, line 61: self.running = False
exit_clear_running ==
    /\ ppc = "exit"
    /\ running' = FALSE
    /\ ppc' = "get"
    /\ UNCHANGED <<otherVars, tpc, q, chars, body, after>>

\* __exit__ with a get that does not block: it goes on with or without an item
exit_get_nowait ==
    /\ ppc = "get"
    /\ q' = IF q > 0 THEN q - 1 ELSE 0
    /\ ppc' = "ok"
    /\ UNCHANGED <<otherVars, tpc, running, chars, body, after>>

\* __exit__, line 62: self.q.get() blocks until there is an item
exit_get ==
    /\ ppc = "get" /\ q > 0
    /\ q' = q - 1
    /\ ppc' = "ok"
    /\ UNCHANGED <<otherVars, tpc, running, chars, body, after>>

\* mutant: __exit__ returns a true value, an exception of the body is dropped
ExitWith_suppressed(b) == "returned"

\* __exit__ returns None: the with statement ends the way its body did
ExitWith(b) == b

\* __exit__, line 63: print('\bok'), and the with statement is left
exit_print_ok ==
    /\ ppc = "ok"
    /\ after' = ExitWith(body)
    /\ ppc' = "continued"
    /\ UNCHANGED <<otherVars, tpc, running, q, chars, body>>

\* run, line 66: the message is printed
ticker_message ==
    /\ tpc = "msg"
    /\ tpc' = "set_running"
    /\ UNCHANGED <<otherVars, ppc, running, q, chars, body, after>>

\* run, line 67: self.running = True
ticker_set_running ==
    /\ tpc = "set_running"
    /\ running' = TRUE
    /\ tpc' = "test"
    /\ UNCHANGED <<otherVars, ppc, q, chars, body, after>>

\* run, line 68: while self.running
ticker_test ==
    /\ tpc = "test"
    /\ tpc' = IF running THEN "draw" ELSE "put"
    /\ UNCHANGED <<otherVars, ppc, running, q, chars, body, after>>

\* run, lines 69-70: the next character of the cycle is drawn
ticker_draw ==
    /\ tpc = "draw"
    /\ chars' = (chars + 1) % 4
    /\ tpc' = "sleep"
    /\ UNCHANGED <<otherVars, ppc, running, q, body, after>>

\* run, line 71: time.sleep(0.5)
ticker_sleep ==
    /\ tpc = "sleep"
    /\ tpc' = "test"
    /\ UNCHANGED <<otherVars, ppc, running, q, chars, body, after>>

\* run, line 72: self.q.put(None), and the thread ends
ticker_put ==
    /\ tpc = "put"
    /\ q' = q + 1
    /\ tpc' = "ended"
    /\ UNCHANGED <<otherVars, ppc, running, chars, body, after>>

NextSpinner ==
    \/ spinner_enter \/ body_concludes \/ exit_clear_running \/ exit_get
    \/ exit_print_ok
    \/ ticker_message \/ ticker_set_running \/ ticker_test \/ ticker_draw
    \/ ticker_sleep \/ ticker_put

SpecSpinner == Init /\ [][NextSpinner]_vars

(* ------------- invocations that complete without an exception --------- *)
\* the step does not end the invocation with an exception
Succeeds == pc' = "done" => outcome' = "ok"

\* load_or_create_instance and clean_build, each invocation returning
NextCompleted ==
    \/ (load_or_create_instance /\ Succeeds) \/ (create_key_pair /\ Succeeds)
    \/ (write_keyfile /\ Succeeds) \/ (chmod_keyfile /\ Succeeds)
    \/ (resolve_source_ami /\ Succeeds) \/ (read_user_data /\ Succeeds)
    \/ (resolve_subnet /\ Succeeds) \/ (resolve_security_groups /\ Succeeds)
    \/ (create_instances /\ Succeeds) \/ (check_tags /\ Succeeds)
    \/ (wait_until_exists /\ Succeeds) \/ (create_tags /\ Succeeds)
    \/ (wait_until_running /\ Succeeds) \/ (reload_instance /\ Succeeds)
    \/ (password_data /\ Succeeds) \/ (password_sleep /\ Succeeds)
    \/ (write_password_file /\ Succeeds) \/ (decrypt_password /\ Succeeds)
    \/ (unlink_password_file /\ Succeeds) \/ (write_state /\ Succeeds)
    \/ (write_inventory /\ Succeeds) \/ (write_playbook /\ Succeeds)
    \/ (load_state /\ Succeeds)
    \/ (clean_build /\ Succeeds) \/ (terminate_instance /\ Succeeds)
    \/ (delete_key_pair /\ Succeeds) \/ (unlink_file /\ Succeeds)
    \/ (clean_build_return /\ Succeeds)
    \/ finish

SpecCompleted == Init /\ [][NextCompleted]_vars

(* ------------------------------- statuses ------------------------------ *)
\* the instance key the files and the provider's resources belong to
TheInstance == <<"a", "-", "default">>

\* instance_files: the path of each file under .boss, the instance key
\* followed by the suffix of the role
instance_paths(instance) ==
    [f \in FileNames |->
        instance \o (CASE f = "state" -> <<"-state", ".yml">>
                      [] f = "keyfile" -> <<".pem">>
                      [] f = "inventory" -> <<".inventory">>
                      [] f = "playbook" -> <<"-playbook", ".yml">>)]

\* os.path.exists of a path under .boss, which holds the files of TheInstance
path_exists(path) ==
    \E f \in FileNames : files[f].exists /\ instance_paths(TheInstance)[f] = path

\* statuses, lines 422-425: each key of the configuration with exists(key)
statuses(keys) == [instance \in keys |-> path_exists(instance \o <<".yml">>)]

(* ======================= properties of the lifecycle =================== *)
InLog(c) == \E i \in DOMAIN log : log[i] = c
Count(c) == Cardinality({i \in DOMAIN log : log[i] = c})
Ensure == "load_or_create_instance"

\* C1: idempotent re-entry of load_or_create_instance.  An invocation that
\* finds the state file issues no create-keypair and no create-instance
\* call, writes no file and returns the stored state; an invocation that
\* does not find it and succeeds issued exactly one call of each kind, so
\* two calls in sequence issue one of each in total.
C1_IdempotentReentry ==
    (pc = "done" /\ op = Ensure) =>
        IF files0["state"].exists
        THEN /\ outcome = "ok"
             /\ ~InLog("create_key_pair") /\ ~InLog("create_instances")
             /\ log = <<"load_state">>
             /\ files = files0
             /\ safe_dump(result) = files0["state"].data
        ELSE outcome = "ok" =>
                Count("create_key_pair") = 1 /\ Count("create_instances") = 1

\* C2: at most one create-keypair and one create-instance call per
\* instance_key while no clean_build intervened, aborted invocations included
C2_AtMostOnceCreation == kpCreated <= 1 /\ instCreated <= 1

\* C3: ItemNotFound during name resolution leaves behind no keypair, no
\* instance and no credential file created by that invocation
C3_NothingLeftOnItemNotFound ==
    (pc = "done" /\ op = Ensure /\ outcome = "ItemNotFound") =>
        /\ keyname \notin keypairs
        /\ ec2_instance = 0
        /\ files = files0

\* C4: whenever load_or_create_instance is about to issue, or has issued,
\* the create-instance call, the keypair exists at the provider under the
\* key name given to create-instance and its private key is in the
\* credential file with mode 0600
C4_KeypairBeforeInstance ==
    (op = Ensure /\ (pc = "create_instances" \/ InLog("create_instances"))) =>
        /\ keyname \in keypairs
        /\ files["keyfile"].exists
        /\ files["keyfile"].data = <<keyname>>
        /\ files["keyfile"].mode = "0600"
        /\ ec2_instance # 0 => instances[ec2_instance].keyname = keyname

\* C4 witness: the instance was created by a successful invocation
C4_Witness ==
    /\ pc = "done" /\ op = Ensure /\ outcome = "ok"
    /\ InLog("create_instances") /\ ec2_instance # 0

\* the state record a set of InstanceFiles holds (open and yaml.load)
PersistedState(fs) == yaml_load(fs["state"].data)

\* C7: once terminate and delete-keypair succeeded, clean_build calls
\* os.unlink once for each of the four files, removes every file whose
\* unlink did not fail whatever the set of failing ones, and returns
C7_BestEffortTeardown ==
    /\ (op = "clean_build" /\ pc = "unlink") =>
          \A f \in FileNames : attempts[f] = (IF f \in todo THEN 0 ELSE 1)
    /\ (op = "clean_build" /\ pc = "done"
            /\ log = <<"terminate", "delete_key_pair">> /\ outcome # "ClientError") =>
          /\ outcome = "ok"
          /\ \A f \in FileNames :
                /\ attempts[f] = 1
                /\ files[f].exists <=> (files0[f].exists /\ f \in failed)
                /\ ~files0[f].exists => f \in failed

\* C7 witness: the credential file was already missing, the other three
\* files are removed and clean_build returns
C7_Witness ==
    /\ op = "clean_build" /\ pc = "done" /\ outcome = "ok"
    /\ ~files0["keyfile"].exists
    /\ \A f \in FileNames \ {"keyfile"} : files0[f].exists
    /\ \A f \in FileNames : ~files[f].exists
    /\ failed = {"keyfile"}

\* C8: clean_build issues terminate, then delete-keypair, then the file
\* removals, and waits for nothing in between; when terminate or
\* delete-keypair fails no file was removed and the state file still holds
\* the record that was loaded
C8_TeardownOrder ==
    op = "clean_build" =>
        /\ \E n \in 0..2 : log = SubSeq(<<"terminate", "delete_key_pair">>, 1, n)
        /\ (\E f \in FileNames : attempts[f] > 0 \/ files[f] # files0[f]) =>
              /\ log = <<"terminate", "delete_key_pair">>
              /\ instances[state["build"].id].state = "terminated"
              /\ state["keyname"] \notin keypairs
        /\ (pc = "done" /\ outcome = "ClientError") =>
              /\ files = files0
              /\ files["state"].exists
              /\ PersistedState(files) = state

\* C8 witness: a clean_build that failed in a provider call is invoked again
\* and completes the teardown
C8_Witness ==
    /\ op = "clean_build" /\ pc = "done" /\ outcome = "ok"
    /\ prev.op = "clean_build" /\ ~prev.ok
    /\ \A f \in FileNames : ~files[f].exists
    /\ state["keyname"] \notin keypairs
    /\ instances[state["build"].id].state = "terminated"

\* C9: make_image changes the state file only by its final write, made
\* after the wait saw the created image available; that write adds ami_id,
\* the id of the created image; keyname and build are after make_image what
\* they were before it, however it ended; an invocation in which the image
\* creation or the wait does not complete leaves every file as it was
C9_AmiRecordedWhenAvailable ==
    op = "make_image" =>
        /\ files # files0 =>
              (pc = "done" /\ InLog("image_available") /\ InLog("write_state"))
        /\ (pc = "done" /\ ~InLog("image_available")) =>
              (outcome # "ok" /\ files = files0)
        /\ (pc = "done" /\ files0["state"].exists
            /\ {"keyname", "build"} \subseteq DOMAIN PersistedState(files0)) =>
              /\ files["state"].exists
              /\ {"keyname", "build"} \subseteq DOMAIN PersistedState(files)
              /\ PersistedState(files)["keyname"] = PersistedState(files0)["keyname"]
              /\ PersistedState(files)["build"] = PersistedState(files0)["build"]
        /\ (pc = "done" /\ outcome = "ok") =>
              /\ InLog("image_available")
              /\ image # 0 /\ images[image].state = "available"
              /\ \A f \in FileNames \ {"state"} : files[f] = files0[f]
              /\ DOMAIN PersistedState(files)
                    = DOMAIN PersistedState(files0) \cup {"ami_id"}
              /\ PersistedState(files)["ami_id"] = image

\* C10: clean_image never changes keyname or build; after make_image
\* followed by clean_image the image deregistered is the one make_image
\* recorded, the state has no ami_id and the keyname and build it had before
\* make_image, and it is the very document of before make_image when that
\* one had no ami_id
C10_CaptureCleanRoundTrip ==
    (op = "clean_image" /\ files0["state"].exists
        /\ {"keyname", "build"} \subseteq DOMAIN PersistedState(files0)) =>
        /\ files["state"].exists
        /\ \A f \in FileNames \ {"state"} : files[f] = files0[f]
        /\ {"keyname", "build"} \subseteq DOMAIN PersistedState(files)
        /\ PersistedState(files)["keyname"] = PersistedState(files0)["keyname"]
        /\ PersistedState(files)["build"] = PersistedState(files0)["build"]
        /\ (pc = "done" /\ outcome = "ok" /\ prev.op = "make_image" /\ prev.ok) =>
              /\ image = prev.image
              /\ Count("deregister") = 1
              /\ images[prev.image].state = "deregistered"
              /\ DOMAIN PersistedState(files) = {"keyname", "build"}
              /\ PersistedState(files)["keyname"] = yaml_load(prev.before)["keyname"]
              /\ PersistedState(files)["build"] = yaml_load(prev.before)["build"]
              /\ "ami_id" \notin DOMAIN yaml_load(prev.before) =>
                    files["state"].data = prev.before

(* =================== properties of wait_for_connection ================= *)
\* C5: no attempt is started after the deadline, and when the deadline has
\* passed on entry the wait raises ConnectionTimeout without any TCP connect
\* or command check
C5_DeadlineBeforeAttempt ==
    /\ started <= end
    /\ nExec <= nTcp
    /\ (nTcp > 0) => started >= t0
    /\ (wpc # "off" /\ t0 > end) => (nTcp = 0 /\ nExec = 0 /\ wpc \in {"top", "timeout"})

\* C5 witness: the deadline lay two seconds in the past on entry
C5_Witness == wpc = "timeout" /\ t0 = end + 2 /\ nTcp = 0 /\ nExec = 0

\* C6: the wait returns only from an iteration whose TCP connect succeeded
\* and whose command check exited with 0; a failure of either phase leads to
\* the 15 second sleep and from there to the top of the loop, where the
\* next attempt begins with the TCP connect; and the wait ends
C6_TwoPhaseRetry ==
    /\ [](wpc = "returned" => (tcpOk /\ ret = 0))
    /\ [][wpc' = "returned" => (wpc = "exec" /\ tcpOk /\ ret' = 0)]_vars
    /\ [][wpc' = "exec" => (wpc = "tcp" /\ tcpOk')]_vars
    /\ [][(wpc = "tcp" /\ wpc' # "exec") => (~tcpOk' /\ wpc' = "sleep")]_vars
    /\ [][(wpc = "exec" /\ ret' # 0) => wpc' = "sleep"]_vars
    /\ [][wpc = "sleep" => (wpc' = "top" /\ now' = now + 15)]_vars
    /\ [][wpc = "top" => wpc' \in {"tcp", "timeout"}]_vars
    /\ <>(wpc \in {"returned", "timeout"})

\* C6 witness: the wait returned after a failed command check and a retry
C6_Witness == wpc = "returned" /\ nExec >= 2 /\ nTcp > nExec

(* ===================== properties of the image record ================== *)
\* images held by the provider that are not deregistered
RegisteredImages == {i \in 1..Len(images) : images[i].state # "deregistered"}

\* C11: between operations at most one image created for the instance_key
\* is registered at the provider, and a registered image is the one whose id
\* the persisted state records as ami_id
C11_OneImagePerInstance ==
    pc = "idle" =>
        /\ Cardinality(RegisteredImages) <= 1
        /\ \A i \in RegisteredImages :
              /\ files["state"].exists
              /\ "ami_id" \in DOMAIN PersistedState(files)
              /\ PersistedState(files)["ami_id"] = i

(* ================= properties of configuration resolution ============== *)
\* the platforms and the profiles a document declares, the profile named
\* "default" standing in when it declares none
DeclaredPlatforms == doc["platforms"]
DeclaredProfiles ==
    IF "profiles" \in DOMAIN doc THEN doc["profiles"] ELSE << [name |-> DefaultName] >>

DistinctNames(items) ==
    \A i, j \in 1..Len(items) : i # j => items[i]["name"] # items[j]["name"]

\* the resolved configuration has one instance per (platform, profile)
\* pair, under the key "{platform}-{profile}"
OnePerPair(result_) ==
    LET pairs == (1..Len(DeclaredPlatforms)) \X (1..Len(DeclaredProfiles))
    IN  /\ Cardinality(DOMAIN result_.config) = Len(DeclaredPlatforms) * Len(DeclaredProfiles)
        /\ \A ij \in pairs :
              \E k \in DOMAIN result_.config :
                 /\ k = InstanceKey(DeclaredPlatforms[ij[1]]["name"],
                                    DeclaredProfiles[ij[2]]["name"])
                 /\ result_.config[k]["platform"] = DeclaredPlatforms[ij[1]]["name"]
                 /\ result_.config[k]["profile"] = DeclaredProfiles[ij[2]]["name"]

\* C12: a valid document with P platforms of pairwise distinct names and Q
\* profiles of pairwise distinct names (the profile "default" when none is
\* declared) resolves, in either mode, to exactly P x Q instances, one per
\* pair and keyed "{platform}-{profile}"
C12_OneKeyPerPair ==
    (DistinctNames(DeclaredPlatforms) /\ DistinctNames(DeclaredProfiles)) =>
        /\ loaded.status = "ok" => OnePerPair(loaded)
        /\ loaded_v2.status = "ok" => OnePerPair(loaded_v2)

\* the value of field f at the first of the given levels (highest first)
\* that sets it
PickFirst(levels, f) ==
    levels[CHOOSE i \in 1..Len(levels) :
              /\ f \in DOMAIN levels[i]
              /\ \A h \in 1..(i - 1) : f \notin DOMAIN levels[h]][f]

\* conf has, for every one of the given fields that a level sets or the
\* schema defaults, the value of the highest level that sets it, or else
\* the schema default
FollowsPrecedence(conf, fields, levels, schema_defaults) ==
    \A f \in fields :
        IF \E i \in 1..Len(levels) : f \in DOMAIN levels[i]
        THEN f \in DOMAIN conf /\ conf[f] = PickFirst(levels, f)
        ELSE f \in DOMAIN schema_defaults =>
                (f \in DOMAIN conf /\ conf[f] = schema_defaults[f])

\* the platform and the profile of a document that an instance was made of
PlatformOf(inst) ==
    doc["platforms"][CHOOSE i \in 1..Len(doc["platforms"]) :
                        doc["platforms"][i]["name"] = inst["platform"]]
ProfileOf(inst) ==
    LET profiles == IF "profiles" \in DOMAIN doc THEN doc["profiles"]
                    ELSE default_profiles
    IN  profiles[CHOOSE j \in 1..Len(profiles) : profiles[j]["name"] = inst["profile"]]
DefaultsOf == IF "defaults" \in DOMAIN doc THEN doc["defaults"] ELSE EmptyDict

\* C13: merge precedence in the resolved configuration of every instance.
\* In the single-stage mode a field takes the value of the profile, else of
\* the platform, else of defaults, else its schema default; in the
\* nested-stage mode the same holds of the test configuration and, for the
\* fields the build stage of the platform does not set, of the build
\* configuration (the profile sets extra_vars there)
C13_MergePrecedence ==
    (DistinctNames(DeclaredPlatforms) /\ DistinctNames(DeclaredProfiles)
        /\ "driver" \notin DOMAIN doc) =>
        /\ loaded.status = "ok" =>
              \A k \in DOMAIN loaded.config :
                 LET inst == loaded.config[k]
                 IN  FollowsPrecedence(inst, Fields,
                        <<Without(ProfileOf(inst), {"name"}),
                          Without(PlatformOf(inst), {"name"}), DefaultsOf>>,
                        [port |-> "22", extra_vars |-> "{}"])
        /\ loaded_v2.status = "ok" =>
              \A k \in DOMAIN loaded_v2.config :
                 LET inst == loaded_v2.config[k]
                     platform == PlatformOf(inst)
                     levels == <<Without(ProfileOf(inst), {"name"}),
                                 Without(platform, excluded_items), DefaultsOf>>
                     schema_defaults == [instance_type |-> "t2.micro", port |-> "22",
                                         extra_vars |-> "{}"]
                 IN  /\ FollowsPrecedence(inst["build"], Fields \ DOMAIN platform["build"],
                                          levels, schema_defaults)
                     /\ FollowsPrecedence(inst["test"], BaseKeys, levels, schema_defaults)

\* C17: a document that load_config accepts and that has no build or test
\* stage in any platform is accepted by load_config_v2 as well, with the
\* same instance keys and, for each, a build configuration of the same
\* fields and values as the configuration load_config gives
C17_ModeEquivalence ==
    (/\ loaded.status = "ok" /\ loaded_v2 # NotLoaded
     /\ \A i \in 1..Len(doc["platforms"]) :
           {"build", "test"} \cap DOMAIN doc["platforms"][i] = {}) =>
        /\ loaded_v2.status = "ok"
        /\ DOMAIN loaded_v2.config = DOMAIN loaded.config
        /\ \A k \in DOMAIN loaded.config : loaded_v2.config[k]["build"] = loaded.config[k]

(* ================== properties of the resource resolver ================ *)
\* the items of the service that the filter of the lookup matches
Matching == {i \in 1..Len(lookup.service) : lookup.service[i].name = lookup.name}

HasPrefix ==
    /\ Len(lookup.name) >= Len(lookup.prefix)
    /\ \A i \in 1..Len(lookup.prefix) : lookup.name[i] = lookup.prefix[i]

\* C14: resource_id_for returns a name that starts with the prefix
\* unchanged and without a lookup; for any other name it makes exactly one
\* filtered lookup and returns the id of the only matching item, the id of
\* the first when several match, and raises ItemNotFound when none does
C14_ResolverShortCircuit ==
    resolved # NotResolved =>
        IF HasPrefix
        THEN resolved.found /\ resolved.id = lookup.name /\ resolved.lookups = 0
        ELSE /\ resolved.lookups = 1
             /\ resolved.found <=> Matching # {}
             /\ \A i \in Matching :
                   (\A h \in Matching : i <= h) => resolved.id = lookup.service[i].id

\* C14 witness: several items match and the id of the first is returned
C14_Witness ==
    /\ Cardinality(Matching) = 2 /\ ~HasPrefix
    /\ lookup.service[1].id # lookup.service[2].id
    /\ resolved.found /\ resolved.id = lookup.service[1].id /\ resolved.lookups = 1

(* ========================== properties of run ========================== *)
\* C15: run (make_build) returns exactly the return code of the
\* ansible-playbook child, whatever that code and whatever the return code
\* of ansible-galaxy, and the process of the CLI exits with that code when
\* it is an exit code (0..255)
C15_RunReturnsPlaybookCode ==
    /\ rets.run # <<>> =>
          /\ rpc \in {"returned", "exited"}
          /\ rets.galaxy # <<>> /\ rets.playbook # <<>>
          /\ rets.run = rets.playbook
    /\ (rpc = "exited" /\ rets.run # <<>>) =>
          (rets.playbook[1] \in 0..255 => rets.exit = rets.playbook)
    /\ (rpc = "exited" /\ rets.run = <<>>) => (raised # "" /\ rets.exit = <<1>>)

\* C15 witness: ansible-galaxy failed with 1, ansible-playbook ended with
\* 2, and the CLI exited with 2
C15_Witness ==
    /\ rpc = "exited"
    /\ rets.galaxy = <<1>> /\ rets.playbook = <<2>> /\ rets.run = <<2>>
    /\ rets.exit = <<2>>

(* ======================== properties of Spinner ======================== *)
\* C16: the ticker does not affect the wait.  Once the body has concluded
\* and __exit__ has cleared self.running, the flag stays cleared, so that
\* the ticker loop stops and puts the handoff the parent waits for; and the
\* parent goes on, after the handoff, the way the body concluded
C16_TickerDoesNotAffectWait ==
    /\ ppc \in {"get", "ok", "continued"} => ~running
    /\ ppc \in {"ok", "continued"} => tpc = "ended"
    /\ ppc = "continued" => after = body
\* the steps of run, in the order of its code
RunSteps == <<"load_or_create_instance", "wait_for_connection", "ansible-galaxy",
              "ansible-playbook">>

Launched(step) == \E i \in DOMAIN launched : launched[i] = step

\* load_or_create_instance has returned to the running invocation of run
EnsureReturned ==
    \/ pc = "done" /\ op = Ensure /\ outcome = "ok"
    \/ pc = "idle" /\ rpc = "exited" /\ prev.op = Ensure /\ prev.ok

\* C18: run goes through load_or_create_instance, wait_for_connection,
\* ansible-galaxy and ansible-playbook in this order; the wait is entered
\* only once load_or_create_instance returned; the two commands are
\* launched only once the wait returned, so neither is launched when
\* load_or_create_instance raised or the wait raised ConnectionTimeout;
\* a run that raised before load_or_create_instance has waited for nothing
C18_StageOrder ==
    /\ \E n \in 0..Len(RunSteps) : launched = SubSeq(RunSteps, 1, n)
    /\ launched = <<>> =>
          (wpc = "off" /\ nTcp = 0 /\ rets.galaxy = <<>> /\ rets.playbook = <<>>)
    /\ (wpc # "off" \/ Launched("wait_for_connection")) => EnsureReturned
    /\ (nTcp > 0 \/ nExec > 0) => Launched("wait_for_connection")
    /\ (Launched("ansible-galaxy") \/ Launched("ansible-playbook")) =>
          (wpc = "returned" /\ EnsureReturned)
    /\ (raised # "" /\ rets.galaxy = <<>>) => ~Launched("ansible-galaxy")
    /\ (raised \notin {"", "OSError"} \/ wpc = "timeout") =>
          (rets.galaxy = <<>> /\ rets.playbook = <<>> /\ ~Launched("ansible-galaxy")
           /\ ~Launched("ansible-playbook"))

\* C18 witness: all four steps, the wait having retried once
C18_Witness ==
    /\ rpc = "returned" /\ launched = RunSteps
    /\ nTcp >= 2 /\ wpc = "returned"
\* the provider calls and waits of create_instance, after its lookups
CreateSteps(tagged) ==
    IF tagged
    THEN <<"create_instances", "wait_until_exists", "create_tags",
           "wait_until_running", "reload">>
    ELSE <<"create_instances", "wait_until_running", "reload">>

IsCreateStep(c) ==
    c \in {"create_instances", "wait_until_exists", "create_tags",
           "wait_until_running", "reload"}

IsPrefix(s, t) == Len(s) <= Len(t) /\ s = SubSeq(t, 1, Len(s))

\* C19: an invocation that creates issues create_instances once, for one
\* instance; with tags it goes on through wait_until_exists, create_tags,
\* wait_until_running and reload in this order, without tags through
\* wait_until_running and reload only; the state file is written only
\* after wait_until_running and reload
C19_CreateInstanceSteps ==
    op = Ensure =>
        /\ IsPrefix(SelectSeq(log, IsCreateStep), CreateSteps(config.tags))
        /\ Count("create_instances") <= 1
        /\ ec2_instance # 0 =>
              (Count("create_instances") = 1 /\ ec2_instance = Len(instances))
        /\ (pc = "write_state" \/ InLog("write_state")
            \/ files["state"] # files0["state"]) =>
              /\ InLog("wait_until_running") /\ InLog("reload")
              /\ instances[ec2_instance].state = "running"

\* C19 witness: a tagged instance was created and its state written
C19_Witness ==
    /\ op = Ensure /\ pc = "done" /\ outcome = "ok" /\ config.tags
    /\ SelectSeq(log, IsCreateStep) = CreateSteps(TRUE)
    /\ InLog("write_state")
\* the steps of the password retrieval, lines 264-269
PasswordSteps == <<"password_data", "write_password_file", "decrypt_password",
                   "unlink_password_file">>

IsPasswordStep(c) ==
    c \in {"password_data", "write_password_file", "decrypt_password",
           "unlink_password_file"}

\* C20: for winrm the password is polled, written to the transient file,
\* decrypted and the transient file deleted, all before the state file and
\* the inventory are written; for ssh none of this happens; however
\* load_or_create_instance ends, the transient file does not exist
C20_PasswordRetrieval ==
    op = Ensure =>
        /\ IsPrefix(SelectSeq(log, IsPasswordStep), PasswordSteps)
        /\ (config.connection = "winrm"
            /\ (pc = "write_state" \/ InLog("write_state") \/ InLog("write_inventory")))
              => SelectSeq(log, IsPasswordStep) = PasswordSteps
        /\ config.connection = "ssh" => SelectSeq(log, IsPasswordStep) = <<>>
        /\ pc = "done" => pwfile = 0
\* C21: a Spinner puts at most one item on its queue; the parent prints
\* 'ok' only after the ticker thread left its loop and put the item; once
\* 'ok' is printed the ticker draws no further character
C21_TickerHandoff ==
    /\ [](/\ q \in {0, 1}
          /\ q = 1 => (tpc = "ended" /\ ppc \notin {"ok", "continued"})
          /\ ppc \in {"ok", "continued"} => (tpc = "ended" /\ q = 0))
    /\ [][ppc = "continued" => (chars' = chars /\ q' = q /\ tpc' = tpc)]_vars
    /\ [][q' > q => (tpc = "put" /\ q = 0 /\ ppc \in {"body", "exit", "get"})]_vars

\* C21 witness: 'ok' is printed after the ticker drew and handed off
C21_Witness ==
    /\ ppc = "continued" /\ tpc = "ended" /\ q = 0
    /\ chars > 0
\* the test stage a platform of the document declares, empty if none
TestStageOf(platform) ==
    IF "test" \in DOMAIN platform THEN platform["test"] ELSE EmptyDict

\* C22: in the nested-stage mode the build configuration of every instance
\* takes each field from the profile (extra_vars), else the build stage of
\* the platform, else the platform, else defaults, whatever the test stage
\* sets; the test configuration takes each field from the test stage, else
\* the platform, else defaults
C22_StageSeparation ==
    (DistinctNames(DeclaredPlatforms) /\ DistinctNames(DeclaredProfiles)
        /\ loaded_v2.status = "ok") =>
        \A k \in DOMAIN loaded_v2.config :
           LET inst == loaded_v2.config[k]
               platform == PlatformOf(inst)
               profile == Update([extra_vars |-> "{}"],
                                 Without(ProfileOf(inst), {"name"}))
               schema_defaults == [instance_type |-> "t2.micro", port |-> "22"]
           IN  /\ FollowsPrecedence(inst["build"], Fields,
                     <<profile, platform["build"], Without(platform, excluded_items),
                       DefaultsOf>>, schema_defaults)
               /\ FollowsPrecedence(inst["test"], BaseKeys,
                     <<TestStageOf(platform), Without(platform, excluded_items),
                       DefaultsOf>>, schema_defaults)
\* C23: between operations, when the state file of the instance exists its
\* keyfile, inventory and playbook exist as well
C23_FileSetConsistency ==
    (pc = "idle" /\ files["state"].exists) =>
        \A f \in {"keyfile", "inventory", "playbook"} : files[f].exists
\* C24: between operations statuses reports the instance as created
\* exactly when the state file that instance_files names for it exists
C24_StatusAgreesWithState ==
    pc = "idle" =>
        (statuses({TheInstance})[TheInstance] <=>
            path_exists(instance_paths(TheInstance)[instance_files["state"]]))
\* the instances of the provider that are not terminated
LiveInstances == {i \in DOMAIN instances : instances[i].state # "terminated"}

\* the state file names the live instance and the live keypair, the only ones
OneOfEach ==
    LET stored == yaml_load(files["state"].data)
    IN  /\ LiveInstances = {stored["build"].id}
        /\ keypairs = {stored["keyname"]}

NoneLive == LiveInstances = {} /\ keypairs = {}

\* C25 as stated: after load_or_create_instance and clean_build invocations
\* that all completed, one instance and one keypair are live, those the
\* state file names, when the state file exists, and none when it does not
C25_LiveAccounting ==
    pc = "idle" => IF files["state"].exists THEN OneOfEach ELSE NoneLive

\* the state file is what a clean_build left that terminated the instance
\* and could not remove the file
Leftover ==
    /\ files["state"].exists
    /\ yaml_load(files["state"].data)["build"].id \notin LiveInstances

\* C25 amended: one instance and one keypair are live, those the state
\* file names, when the state file exists and is no leftover of a
\* clean_build; none is live when the file does not exist or is a leftover;
\* a load_or_create_instance that finds no state file creates an instance
\* and a keypair that did not exist before
C25_LiveAccountingAmended ==
    /\ pc = "idle" =>
          IF files["state"].exists /\ ~Leftover THEN OneOfEach ELSE NoneLive
    /\ (pc = "done" /\ op = Ensure /\ ~files0["state"].exists) =>
          /\ OneOfEach
          /\ ec2_instance = Len(instances) /\ instCreated = 1 /\ kpCreated = 1
    /\ (pc = "done" /\ op = "clean_build") => NoneLive

\* C25 witness: a second instance and keypair, created after a clean_build
C25_Witness ==
    /\ pc = "idle" /\ prev.op = Ensure /\ prev.ok
    /\ files["state"].exists /\ OneOfEach
    /\ Len(instances) = 2 /\ instances[1].state = "terminated"
\* clean_image began without a state file, or with a state file that holds
\* no ami_id (one that is empty, cut short or unparseable included)
NothingToClean ==
    \/ ~files0["state"].exists
    \/ "ami_id" \notin DOMAIN yaml_load(files0["state"].data)

\* a clean_image that began with nothing to clean issues no deregister
\* call, changes no file and ends with an exception; the image of a
\* make_image stays registered through the clean_build that follows it
FailsBeforeDeregister ==
    /\ (op = "clean_image" /\ NothingToClean) =>
          /\ ~InLog("deregister") /\ pc # "deregister"
          /\ files = files0
          /\ pc = "done" =>
                outcome \in {"IOError", "KeyError", "TypeError", "YAMLError"}
    /\ (op = "clean_build" /\ prev.op = "make_image" /\ prev.ok) =>
          images[prev.image].state # "deregistered"

\* C26 as stated: a clean_image without a state file or without ami_id
\* fails before any deregister call and leaves the files as they are; an
\* image captured before a clean_build stays registered, and the
\* clean_image after a completed clean_build deregisters nothing
C26_CleanImagePreconditions ==
    /\ FailsBeforeDeregister
    /\ (op = "clean_image" /\ prev.op = "clean_build" /\ prev.ok) =>
          /\ ~InLog("deregister") /\ pc # "deregister"
          /\ pc = "done" => outcome # "ok"

\* C26 amended: the clean_image after a completed clean_build deregisters
\* nothing when that clean_build removed the state file
C26_CleanImagePreconditionsAmended ==
    /\ FailsBeforeDeregister
    /\ (op = "clean_image" /\ prev.op = "clean_build" /\ prev.ok
        /\ ~files0["state"].exists) =>
          /\ ~InLog("deregister") /\ pc # "deregister"
          /\ files = files0
          /\ pc = "done" => outcome = "IOError"

\* C26 witness: an image was captured, clean_build removed the state file,
\* and clean_image failed with the image still registered
C26_Witness ==
    /\ op = "clean_image" /\ pc = "done" /\ outcome = "IOError"
    /\ prev.op = "clean_build" /\ prev.ok /\ ~files0["state"].exists
    /\ \E i \in DOMAIN images : images[i].state = "available"

====
